---- MODULE Spec2Model ----
(***************************************************************************)
(* Catalog & product synchronization engine of weni-integrations-engine.   *)
(*                                                                         *)
(* Three groups of operations share one Redis instance and one database:   *)
(*   - SellerSyncUtils.create_lock / release_lock       (wpp_products/utils.py) *)
(*   - sync_facebook_catalogs, the catalog reconciler   (wpp_products/tasks.py) *)
(*     and the pass that CatalogProductInsertion._get_or_sync_catalog      *)
(*     starts                                  (services/vtex/generic_service.py) *)
(*   - ProductUploader.process_and_upload with ProductBatchFetcher and     *)
(*     ProductUploader.send_to_meta                     (wpp_products/utils.py) *)
(* Each group has its own next-state relations and specifications; Spec is *)
(* their composition.                                                      *)
(***************************************************************************)
EXTENDS Integers, Sequences, FiniteSets, TLC

VARIABLES
    redis,          \* Redis keyspace: key -> stored value, or Nil when the key is absent
    \* ---- SellerSyncUtils callers
    lpc,            \* caller -> "idle" | "got" | "refused"
    lresult,        \* caller -> what create_lock returned (a key, or Nil for None)
    granted,        \* history: key -> callers whose create_lock returned the key since the key was last absent
    \* ---- sync_facebook_catalogs invocations
    spc,            \* invocation -> position in sync_facebook_catalogs (or in _get_or_sync_catalog)
    scursor,        \* invocation -> number of apps of apptype.apps already visited
    slocal,         \* invocation -> local_catalog_ids as read for the current app (tasks.py:39-41)
    slisting,       \* invocation -> all_catalogs_id as listed for the current app (tasks.py:43)
    wanted,         \* admission -> catalog_id argument of _get_or_sync_catalog
    swaited,        \* history: invocation -> TRUE once Lock.acquire found the key held and slept
    seffects,       \* history: invocation -> TRUE once it has listed, notified, created or deleted
    sfault,         \* history: invocation -> TRUE once a provider, flows or store call of its pass failed
    sfresh,         \* history: invocation -> TRUE while no listing has changed since its pass began
    snotified,      \* history: invocation -> apps whose listing its pass has pushed to flows
    settled,        \* history: TRUE once a pass was completed without a failure since a listing last changed
    remote,         \* wpp-cloud app -> catalog ids the provider lists for its business
    local_catalogs, \* wpp-cloud app -> catalog id -> number of local Catalog rows
    flows,          \* flow object uuid -> <<last listing pushed to the flows consumer>>, or Nil
    \* ---- ProductUploader jobs
    upc,            \* uploader -> position in the job / process_and_upload
    ucatalog,       \* uploader -> catalog of its ProductUploader
    product_ids,    \* uploader -> primary keys selected by __next__ (utils.py:230)
    products_ids,   \* uploader -> facebook_product_id values returned by __next__ (utils.py:236)
    bound_ids,      \* uploader -> TRUE once the for statement has bound products_ids
    status,         \* UploadProduct primary key -> status column
    modified_on,    \* UploadProduct primary key -> modified_on column
    logs,           \* ProductUploadLog table: <<sku_id, vtex_app>> -> number of rows
    \* ---- history of the running pass of each uploader
    times_returned, \* uploader -> primary key -> number of batches of its fetcher that held the row
    pending_at_start,   \* uploader -> rows of its catalog that were pending when its fetcher was built
    renewed,        \* uploader -> key of the EXPIRE issued since its last batch was returned, or Nil
    exhausted,      \* uploader -> TRUE once a next() of its fetcher has raised StopIteration
    \* ---- ProductUploader.send_to_meta and the catalog provider
    csv_content,    \* uploader -> the encoded batch (utils.py:58), or Nil
    upload_id_in_process,   \* uploader -> local of send_to_meta (utils.py:84)
    upload_id,      \* uploader -> local of send_to_meta (utils.py:81, 95)
    file_name,      \* uploader -> local of send_to_meta (utils.py:82, 94)
    audit,          \* history: uploader -> the failure logs written by its current send_to_meta call
    incidents,      \* history: uploader -> create_notification calls of its current send_to_meta call
    in_progress,    \* provider: feed -> ids of the uploads of the feed that have not completed
    uploads_made,   \* provider: number of feed uploads accepted so far
    \* ---- CatalogProductInsertion, CatalogInsertionBySeller
    config,         \* App.config of the VTEX app of the requests
    catalog_vtex_app,   \* wpp-cloud app -> catalog id -> Catalog.vtex_app ("" for None)
    catalog_feeds,  \* wpp-cloud app -> catalog id -> number of ProductFeed rows of the Catalog
    jobs,           \* task name -> number of send_task calls made for it
    ended,          \* request -> how its last call ended (NoOutcome before the first)
    onboard,        \* history: "configured" since configure ran, "inserted" once a first insert has completed after it
    \* ---- UploadProduct.data and direct calls of extract_sku_id
    data,           \* UploadProduct primary key -> data column, a sequence of characters
    sku_call        \* the last extract_sku_id call: its argument and what it gave, or Nil

lockVars == <<lpc, lresult, granted>>
syncHist == <<swaited, seffects, sfault, sfresh, snotified>>
catalogVars == <<remote, local_catalogs, flows, settled, catalog_vtex_app, catalog_feeds>>
admissionVars == <<config, jobs, ended, onboard>>
codecVars == <<data, sku_call>>
syncVars == <<spc, scursor, slocal, slisting, wanted, syncHist, catalogVars, admissionVars,
              codecVars>>
dbVars == <<status, modified_on, logs>>
jobVars == <<upc, ucatalog, product_ids, products_ids, bound_ids>>
passVars == <<times_returned, pending_at_start, renewed, exhausted>>
sendVars == <<csv_content, upload_id_in_process, upload_id, file_name, audit, incidents,
              in_progress, uploads_made>>
vars == <<redis, lockVars, syncVars, dbVars, jobVars, passVars, sendVars>>

\* an absent key, and Python's None
Nil == <<>>

(***************************************************************************)
(* Redis                                                                   *)
(***************************************************************************)
SYNC_WHATSAPP_CATALOGS_LOCK_KEY == <<"sync-whatsapp-catalogs-lock", "">>

VtexApps == {"a1", "a2"}
Catalogs == {"c1", "c2"}

sync_sellers_key(app_uuid) == <<"sync-sellers", app_uuid>>
upload_lock_key(app_uuid) == <<"upload_lock", app_uuid>>

Keys ==
    {SYNC_WHATSAPP_CATALOGS_LOCK_KEY}
        \cup {sync_sellers_key(a) : a \in VtexApps}
        \cup {upload_lock_key(a) : a \in VtexApps}

\* SET key value NX EX ttl: one Redis command; stores only if the key is absent.
\* The reply is TRUE when the value was stored.
RedisSetPlain(kv, key, value) == [reply |-> TRUE, kv |-> [kv EXCEPT ![key] = value]]

RedisSetNX(kv, key, value) ==
    IF kv[key] = Nil
    THEN [reply |-> TRUE, kv |-> [kv EXCEPT ![key] = value]]
    ELSE [reply |-> FALSE, kv |-> kv]

RedisDelete(kv, key) == [kv EXCEPT ![key] = Nil]

\* The TTL of a key set with EX lapses: Redis removes the key.
Expires(key) ==
    /\ key[1] \in {"sync-sellers", "upload_lock"}
    /\ redis[key] # Nil
    /\ redis' = RedisDelete(redis, key)
    /\ granted' = [granted EXCEPT ![key] = {}]
    /\ UNCHANGED <<lpc, lresult, syncVars, dbVars, jobVars, passVars, sendVars>>

(***************************************************************************)
(* SellerSyncUtils                                                         *)
(***************************************************************************)
LockCallers == {"s1", "s2", "s3"}
SellerLists == {<<"7">>, <<"7", "8">>}

\* utils.py:268-274, without start_time
lock_value(app_uuid, sellers) == <<app_uuid, sellers>>

create_lock(s, app_uuid, sellers) ==
    /\ lpc[s] = "idle"
    /\ LET lock_key == sync_sellers_key(app_uuid)
           r == RedisSetNX(redis, lock_key, lock_value(app_uuid, sellers))
       IN /\ redis' = r.kv
          /\ IF r.reply
             THEN /\ lpc' = [lpc EXCEPT ![s] = "got"]
                  /\ lresult' = [lresult EXCEPT ![s] = lock_key]
                  /\ granted' = [granted EXCEPT ![lock_key] = @ \cup {s}]
             ELSE /\ lpc' = [lpc EXCEPT ![s] = "refused"]
                  /\ lresult' = [lresult EXCEPT ![s] = Nil]
                  /\ UNCHANGED granted
    /\ UNCHANGED <<syncVars, dbVars, jobVars, passVars, sendVars>>

\* The holder is done with its work and calls release_lock(lock_key).
release_lock(s) ==
    /\ lpc[s] = "got"
    /\ redis' = RedisDelete(redis, lresult[s])
    /\ granted' = [granted EXCEPT ![lresult[s]] = {}]
    /\ lpc' = [lpc EXCEPT ![s] = "idle"]
    /\ lresult' = [lresult EXCEPT ![s] = Nil]
    /\ UNCHANGED <<syncVars, dbVars, jobVars, passVars, sendVars>>

\* A caller that got None gives up; it may call create_lock again later.
LockRefused(s) ==
    /\ lpc[s] = "refused"
    /\ lpc' = [lpc EXCEPT ![s] = "idle"]
    /\ UNCHANGED <<redis, lresult, granted, syncVars, dbVars, jobVars, passVars, sendVars>>

NextLock ==
    \/ \E s \in LockCallers, a \in VtexApps, l \in SellerLists : create_lock(s, a, l)
    \/ \E s \in LockCallers : release_lock(s)
    \/ \E s \in LockCallers : LockRefused(s)
    \/ \E a \in VtexApps : Expires(sync_sellers_key(a))

(***************************************************************************)
(* sync_facebook_catalogs                                                  *)
(***************************************************************************)
SyncTasks == {"t1", "t2"}
Admissions == {"i1"}
Invocations == SyncTasks \cup Admissions
CatalogIds == {"101", "102"}

\* apptype.apps, in the order the queryset yields them
WppApps == <<"w1", "w2", "w3">>

\* app.config: w3 has no wa_waba_id
wa_business_id(app) == IF app \in {"w1", "w2", "w3"} THEN "business" ELSE ""
wa_waba_id(app) == IF app \in {"w1", "w2"} THEN "waba" ELSE ""

\* the catalogs that a business may own at the provider
CatalogIdsOf(app) == IF app = "w1" THEN CatalogIds ELSE {"102"}

\* str(app.flow_object_uuid)
flow_object_uuid(app) == CASE app = "w1" -> "fo1" [] app = "w2" -> "fo2" [] OTHER -> "fo3"

\* generic_service.py:300-308: the wpp-cloud app named by the vtex app's configuration
wpp_cloud(i) == config.wpp_cloud_uuid

ConfiguredApps == {WppApps[i] : i \in {j \in 1..Len(WppApps) :
                        wa_business_id(WppApps[j]) # "" /\ wa_waba_id(WppApps[j]) # ""}}

\* redis-py Lock.do_acquire: SET name token NX (no timeout, so no expiry)
LockAcquirePlain(kv, name, token) == RedisSetPlain(kv, name, token)

LockAcquire(kv, name, token) == RedisSetNX(kv, name, token)

\* the with block is left without a release
LockKept(kv, name, token) == kv

\* redis-py Lock.release: deletes the key only when it still holds the caller's token
LockRelease(kv, name, token) == IF kv[name] = token THEN RedisDelete(kv, name) ELSE kv

\* the local ids read as if the app had no catalog
no_local_catalog_ids(app) == {}

\* set(app.catalogs.values_list("facebook_catalog_id", flat=True))
local_catalog_ids(app) == {c \in CatalogIds : local_catalogs[app][c] > 0}

\* tasks.py:48-50 with the local ids left out of the difference
to_create_all(fba_catalogs_ids, local_ids) == fba_catalogs_ids

\* tasks.py:48-50
to_create(fba_catalogs_ids, local_ids) == fba_catalogs_ids \ local_ids

to_delete(fba_catalogs_ids, local_ids) == local_ids \ fba_catalogs_ids

\* the apps a pass goes through: apptype.apps for the scheduled task, the wpp-cloud
\* app of the request for a pass that admission triggers
apps_of(t) == IF t \in SyncTasks THEN WppApps ELSE <<wpp_cloud(t)>>

\* the app of the for statement
current_app(t) == apps_of(t)[scursor[t] + 1]

nonSyncVars == <<lockVars, dbVars, jobVars, passVars, sendVars, admissionVars, codecVars>>

SyncStart(t) ==
    /\ spc[t] = "idle"
    /\ spc' = [spc EXCEPT ![t] = "get"]
    /\ UNCHANGED <<redis, scursor, slocal, slisting, wanted, syncHist, catalogVars, nonSyncVars>>

\* tasks.py:27-29: the lock key is read, not taken
SyncGet(t) ==
    /\ spc[t] = "get"
    /\ IF redis[SYNC_WHATSAPP_CATALOGS_LOCK_KEY] # Nil
       THEN spc' = [spc EXCEPT ![t] = "done"]
       ELSE spc' = [spc EXCEPT ![t] = "acquire"]
    /\ UNCHANGED <<redis, scursor, slocal, slisting, wanted, syncHist, catalogVars, nonSyncVars>>

\* tasks.py:32: `with redis.lock(KEY)` enters through Lock.acquire(blocking=True),
\* which retries do_acquire, sleeping in between, until it succeeds
SyncAcquire(t) ==
    /\ spc[t] = "acquire"
    /\ LET r == LockAcquire(redis, SYNC_WHATSAPP_CATALOGS_LOCK_KEY, <<t>>)
       IN IF r.reply
          THEN /\ redis' = r.kv
               /\ spc' = [spc EXCEPT ![t] = "body"]
               /\ scursor' = [scursor EXCEPT ![t] = 0]
               /\ sfresh' = [sfresh EXCEPT ![t] = TRUE]
               /\ UNCHANGED swaited
          ELSE /\ swaited' = [swaited EXCEPT ![t] = TRUE]
               /\ UNCHANGED <<redis, spc, scursor, sfresh>>
    /\ UNCHANGED <<slocal, slisting, wanted, seffects, sfault, snotified, catalogVars,
                   nonSyncVars>>

\* tasks.py:33-38 for an app that lacks wa_business_id or wa_waba_id
SyncSkipApp(t) ==
    /\ spc[t] = "body"
    /\ scursor[t] < Len(apps_of(t))
    /\ current_app(t) \notin ConfiguredApps
    /\ scursor' = [scursor EXCEPT ![t] = @ + 1]
    /\ UNCHANGED <<redis, spc, slocal, slisting, wanted, syncHist, catalogVars, nonSyncVars>>

\* tasks.py:38-43, 86-97: the local ids are read and the provider is asked for the
\* listing; when the listing call fails list_all_catalogs_task returns [], []
SyncList(t, list_ok) ==
    /\ spc[t] = "body"
    /\ scursor[t] < Len(apps_of(t))
    /\ current_app(t) \in ConfiguredApps
    /\ slocal' = [slocal EXCEPT ![t] = local_catalog_ids(current_app(t))]
    /\ slisting' = [slisting EXCEPT ![t] = IF list_ok THEN remote[current_app(t)] ELSE {}]
    /\ seffects' = [seffects EXCEPT ![t] = TRUE]
    /\ sfault' = [sfault EXCEPT ![t] = @ \/ ~list_ok]
    /\ spc' = [spc EXCEPT ![t] = "app"]
    /\ UNCHANGED <<redis, scursor, wanted, swaited, sfresh, snotified, catalogVars, nonSyncVars>>

\* tasks.py:45-58 for one app. Inputs: whether the flows call fails; the ids of
\* to_create the loop gets to before get_catalog_details raises (all of them when
\* it does not raise; continue_on_exception=False lets the exception out of the
\* task); the ids whose details come back empty; the ids whose Catalog row cannot
\* be created; whether the delete fails.
SyncApp(t, flows_ok, reached, no_details, create_failed, details_raise, delete_ok) ==
    /\ spc[t] = "app"
    /\ LET app == current_app(t)
           all_catalogs_id == slisting[t]
           creates == to_create(all_catalogs_id, slocal[t])
           deletes == to_delete(all_catalogs_id, slocal[t])
           made == reached \ (no_details \cup create_failed)
       IN IF all_catalogs_id = {}
          THEN /\ flows_ok /\ delete_ok /\ ~details_raise
               /\ reached = {} /\ no_details = {} /\ create_failed = {}
               /\ scursor' = [scursor EXCEPT ![t] = @ + 1]
               /\ spc' = [spc EXCEPT ![t] = "body"]
               /\ UNCHANGED <<redis, local_catalogs, flows, sfault, snotified,
                              catalog_vtex_app, catalog_feeds>>
          ELSE /\ reached \subseteq creates
               /\ details_raise = (reached # creates)
               /\ no_details \subseteq reached
               /\ create_failed \subseteq reached \ no_details
               /\ (deletes = {} \/ details_raise) => delete_ok
               /\ flows' = IF flows_ok
                           THEN [flows EXCEPT ![flow_object_uuid(app)] = <<all_catalogs_id>>]
                           ELSE flows
               /\ snotified' = [snotified EXCEPT ![t] = IF flows_ok THEN @ \cup {app} ELSE @]
               /\ local_catalogs' = [local_catalogs EXCEPT ![app] =
                     [c \in CatalogIds |->
                         IF c \in made THEN @[c] + 1
                         ELSE IF ~details_raise /\ delete_ok /\ c \in deletes THEN 0
                         ELSE @[c]]]
               \* a created row has no vtex_app and no feeds; the feeds of a deleted
               \* row go with it
               /\ catalog_vtex_app' = [catalog_vtex_app EXCEPT ![app] =
                     [c \in CatalogIds |->
                         IF \/ c \in made /\ local_catalogs[app][c] = 0
                            \/ ~details_raise /\ delete_ok /\ c \in deletes
                         THEN "" ELSE @[c]]]
               /\ catalog_feeds' = [catalog_feeds EXCEPT ![app] =
                     [c \in CatalogIds |->
                         IF \/ c \in made /\ local_catalogs[app][c] = 0
                            \/ ~details_raise /\ delete_ok /\ c \in deletes
                         THEN 0 ELSE @[c]]]
               /\ sfault' = [sfault EXCEPT ![t] =
                     @ \/ ~flows_ok \/ no_details # {} \/ create_failed # {} \/ details_raise
                       \/ ~delete_ok]
               /\ IF details_raise
                  THEN /\ redis' = LockRelease(redis, SYNC_WHATSAPP_CATALOGS_LOCK_KEY, <<t>>)
                       /\ spc' = [spc EXCEPT ![t] = "failed"]
                       /\ UNCHANGED scursor
                  ELSE /\ scursor' = [scursor EXCEPT ![t] = @ + 1]
                       /\ spc' = [spc EXCEPT ![t] = "body"]
                       /\ UNCHANGED redis
    /\ UNCHANGED <<slocal, slisting, wanted, swaited, seffects, sfresh, remote, settled,
                   nonSyncVars>>

\* the with block ends: Lock.__exit__ releases the lock
SyncRelease(t) ==
    /\ spc[t] = "body"
    /\ scursor[t] = Len(apps_of(t))
    /\ redis' = LockRelease(redis, SYNC_WHATSAPP_CATALOGS_LOCK_KEY, <<t>>)
    /\ spc' = [spc EXCEPT ![t] = "done"]
    /\ settled' = (settled \/ (sfresh[t] /\ ~sfault[t] /\ t \in SyncTasks))
    /\ UNCHANGED <<scursor, slocal, slisting, wanted, syncHist, remote, local_catalogs, flows,
                   catalog_vtex_app, catalog_feeds, nonSyncVars>>

\* the task has returned (or failed); the scheduler may run it again
SyncReturn(t) ==
    /\ spc[t] \in {"done", "failed"}
    /\ spc' = [spc EXCEPT ![t] = "idle"]
    /\ scursor' = [scursor EXCEPT ![t] = 0]
    /\ slocal' = [slocal EXCEPT ![t] = {}]
    /\ slisting' = [slisting EXCEPT ![t] = {}]
    /\ swaited' = [swaited EXCEPT ![t] = FALSE]
    /\ seffects' = [seffects EXCEPT ![t] = FALSE]
    /\ sfault' = [sfault EXCEPT ![t] = FALSE]
    /\ sfresh' = [sfresh EXCEPT ![t] = FALSE]
    /\ snotified' = [snotified EXCEPT ![t] = {}]
    /\ UNCHANGED <<redis, wanted, catalogVars, nonSyncVars>>

\* the provider's listing of an app changes
RemoteChange(app, ids) ==
    /\ ids \subseteq CatalogIdsOf(app)
    /\ remote[app] # ids
    /\ remote' = [remote EXCEPT ![app] = ids]
    /\ settled' = FALSE
    /\ sfresh' = [t \in Invocations |-> FALSE]
    /\ UNCHANGED <<redis, spc, scursor, slocal, slisting, wanted, swaited, seffects, sfault,
                   snotified, local_catalogs, flows, catalog_vtex_app, catalog_feeds,
                   nonSyncVars>>

\* the steps of one reconciliation pass
Pass(t) ==
    \/ SyncGet(t)
    \/ SyncAcquire(t)
    \/ SyncSkipApp(t)
    \/ \E list_ok \in BOOLEAN : SyncList(t, list_ok)
    \/ \E flows_ok, details_raise, delete_ok \in BOOLEAN,
          reached, no_details, create_failed \in SUBSET CatalogIds :
            SyncApp(t, flows_ok, reached, no_details, create_failed, details_raise, delete_ok)
    \/ SyncRelease(t)

\* the scheduled task, possibly started again while it runs
NextSync ==
    \/ \E t \in SyncTasks : SyncStart(t)
    \/ \E t \in SyncTasks : Pass(t)
    \/ \E t \in SyncTasks : SyncReturn(t)

\* one scheduled pass after another, and the provider's listings changing
NextRecon ==
    \/ SyncStart("t1")
    \/ Pass("t1")
    \/ SyncReturn("t1")
    \/ \E app \in ConfiguredApps, ids \in SUBSET CatalogIds : RemoteChange(app, ids)

(***************************************************************************)
(* CatalogProductInsertion and CatalogInsertionBySeller                    *)
(***************************************************************************)
CredentialKeys == {"app_key", "app_token", "domain"}
SellerRequests == {"b1"}
Requests == Admissions \cup SellerRequests
TaskNames == {"task_insert_vtex_products", "task_insert_vtex_products_by_sellers"}
MaxJobs == 1

\* the vtex_app argument of the requests
request_app(r) == "a1"

\* how a call ends: nothing raised yet, an exception, or send_task was called
\* how a call ended; when it came through the sync-vtex-sellers endpoint, also what
\* synchronized_sellers returned and the status of the response
NoOutcome ==
    [kind |-> "none", message |-> "", catalog |-> Nil, writes |-> {}, returned |-> "",
     response |-> 0]
Raised(kind, message) ==
    [kind |-> kind, message |-> message, catalog |-> Nil, writes |-> {}, returned |-> "",
     response |-> 0]
Dispatched(catalog, writes) ==
    [kind |-> "dispatched", message |-> "", catalog |-> catalog, writes |-> writes,
     returned |-> "", response |-> 0]

\* generic_service.py:293-299 and 526-532
get_wpp_cloud_uuid(cfg) ==
    IF cfg.wpp_cloud_uuid = ""
    THEN Raised("ValueError", "does not have the WPP Cloud UUID")
    ELSE NoOutcome

\* generic_service.py:303-310 and 536-543: the three keys must be in the dictionary
get_credentials(cfg) ==
    IF CredentialKeys \subseteq cfg.api_credentials
    THEN NoOutcome
    ELSE Raised("ValueError", "Missing one or more API credentials.")

\* generic_service.py:313-320 and 554-565: App.objects.get(uuid=wpp_cloud_uuid)
get_wpp_cloud(wpp_cloud_uuid) ==
    IF \E n \in 1..Len(WppApps) : WppApps[n] = wpp_cloud_uuid
    THEN NoOutcome
    ELSE Raised("ValueError", "linked to the VTEX app does not exist.")

\* generic_service.py:281-283: the checks that come before the catalog lookup
FirstRaised(checks) ==
    LET failing == {n \in 1..Len(checks) : checks[n] # NoOutcome}
    IN IF failing = {} THEN NoOutcome
       ELSE checks[CHOOSE n \in failing : \A m \in failing : n <= m]

first_insert_checks(cfg) ==
    FirstRaised(<<get_wpp_cloud_uuid(cfg), get_credentials(cfg),
                  get_wpp_cloud(cfg.wpp_cloud_uuid)>>)

\* generic_service.py:281-283: one of the three raises and the call ends
FirstInsertReject(i) ==
    /\ spc[i] = "idle"
    /\ first_insert_checks(config) # NoOutcome
    /\ ended' = [ended EXCEPT ![i] = first_insert_checks(config)]
    /\ UNCHANGED <<redis, lockVars, spc, scursor, slocal, slisting, wanted, syncHist,
                   catalogVars, dbVars, jobVars, passVars, sendVars, config, jobs, onboard,
                   codecVars>>

\* wpp_cloud.catalogs.filter(facebook_catalog_id=catalog_id).first()
catalog_never_found(app, catalog_id) == FALSE

catalog_found(app, catalog_id) ==
    app \in DOMAIN local_catalogs /\ local_catalogs[app][catalog_id] > 0

\* generic_service.py:326-333: the first lookup; when no Catalog row is found a
\* reconciliation pass for the wpp-cloud app is started
GetCatalog(i, catalog_id) ==
    /\ spc[i] = "idle"
    /\ first_insert_checks(config) = NoOutcome
    /\ wanted' = [wanted EXCEPT ![i] = catalog_id]
    /\ spc' = [spc EXCEPT ![i] =
            IF catalog_found(wpp_cloud(i), catalog_id) THEN "found" ELSE "get"]
    /\ UNCHANGED <<redis, scursor, slocal, slisting, syncHist, catalogVars, nonSyncVars>>

\* FacebookCatalogSyncService(wpp_cloud).sync_catalogs(): a reconciliation pass
\* over the one app, under the reconciliation lock
sync_catalogs(i) == Pass(i)

\* generic_service.py:334-338: the second lookup, ValueError when it finds nothing
GetCatalogAgain(i) ==
    /\ spc[i] = "done"
    /\ spc' = [spc EXCEPT ![i] =
            IF catalog_found(wpp_cloud(i), wanted[i]) THEN "found" ELSE "not_found"]
    /\ UNCHANGED <<redis, scursor, slocal, slisting, wanted, syncHist, catalogVars, nonSyncVars>>

\* the locals of the pass and of _get_or_sync_catalog are gone when the call ends
AdmissionEnds(i) ==
    /\ spc' = [spc EXCEPT ![i] = "idle"]
    /\ scursor' = [scursor EXCEPT ![i] = 0]
    /\ slocal' = [slocal EXCEPT ![i] = {}]
    /\ slisting' = [slisting EXCEPT ![i] = {}]
    /\ wanted' = [wanted EXCEPT ![i] = ""]
    /\ swaited' = [swaited EXCEPT ![i] = FALSE]
    /\ seffects' = [seffects EXCEPT ![i] = FALSE]
    /\ sfault' = [sfault EXCEPT ![i] = FALSE]
    /\ sfresh' = [sfresh EXCEPT ![i] = FALSE]
    /\ snotified' = [snotified EXCEPT ![i] = {}]

\* generic_service.py:336-338: the ValueError of the second lookup, or what the
\* pass raised, leaves first_product_insert_with_catalog
AdmissionReturn(i) ==
    /\ spc[i] \in {"not_found", "failed"}
    /\ AdmissionEnds(i)
    /\ ended' = [ended EXCEPT ![i] =
            IF spc[i] = "not_found"
            THEN Raised("ValueError", "not found for cloud app after synchronization.")
            ELSE Raised("Exception", "sync_catalogs")]
    /\ UNCHANGED <<redis, catalogVars, lockVars, dbVars, jobVars, passVars, sendVars,
                   config, jobs, onboard, codecVars>>

\* generic_service.py:356-369: every feed of the catalog is deleted
delete_existing_feeds_ifexists(total) ==
    [feeds |-> 0, writes |-> IF total > 0 THEN {"feed"} ELSE {}]

\* app.config["connected_catalog"] = True and app.save(), whatever the flag was
update_flag_always(cfg) ==
    [config |-> [cfg EXCEPT !.connected_catalog = TRUE], writes |-> {"app"}]

\* generic_service.py:372-378
update_app_connected_catalog_flag(cfg) ==
    IF cfg.connected_catalog # TRUE
    THEN [config |-> [cfg EXCEPT !.connected_catalog = TRUE], writes |-> {"app"}]
    ELSE [config |-> cfg, writes |-> {}]

\* generic_service.py:342-353: `if not catalog.vtex_app`
link_catalog_to_vtex_app_if_needed(linked, app) ==
    IF linked = ""
    THEN [vtex_app |-> app, writes |-> {"catalog"}]
    ELSE [vtex_app |-> linked, writes |-> {}]

\* generic_service.py:286-290, 381-399: the catalog was found; its feeds are deleted,
\* the flag is set, the catalog is linked and task_insert_vtex_products is sent.
\* catalog.save() of a row that a pass has deleted since the lookup inserts it again.
FirstInsertAdmit(i) ==
    /\ spc[i] = "found"
    /\ jobs["task_insert_vtex_products"] < MaxJobs
    /\ LET app == wpp_cloud(i)
           c == wanted[i]
           feeds == delete_existing_feeds_ifexists(catalog_feeds[app][c])
           flag == update_app_connected_catalog_flag(config)
           link == link_catalog_to_vtex_app_if_needed(catalog_vtex_app[app][c], request_app(i))
       IN /\ catalog_feeds' = [catalog_feeds EXCEPT ![app][c] = feeds.feeds]
          /\ config' = flag.config
          /\ catalog_vtex_app' = [catalog_vtex_app EXCEPT ![app][c] = link.vtex_app]
          /\ local_catalogs' = [local_catalogs EXCEPT ![app][c] =
                IF @ = 0 /\ link.writes # {} THEN 1 ELSE @]
          /\ ended' = [ended EXCEPT ![i] =
                Dispatched(<<app, c>>, feeds.writes \cup flag.writes \cup link.writes)]
    /\ jobs' = [jobs EXCEPT !["task_insert_vtex_products"] = @ + 1]
    /\ AdmissionEnds(i)
    /\ UNCHANGED <<redis, remote, flows, settled, lockVars, dbVars, jobVars, passVars,
                   sendVars, onboard, codecVars>>

\* first_product_insert_with_catalog, step by step
FirstInsert(i) ==
    \/ FirstInsertReject(i)
    \/ \E c \in CatalogIds : GetCatalog(i, c)
    \/ sync_catalogs(i)
    \/ GetCatalogAgain(i)
    \/ AdmissionReturn(i)
    \/ FirstInsertAdmit(i)

\* vtex_app.vtex_catalogs: the Catalog rows whose vtex_app is the app
vtex_catalogs(app) ==
    {k \in ConfiguredApps \X CatalogIds :
        local_catalogs[k[1]][k[2]] > 0 /\ catalog_vtex_app[k[1]][k[2]] = app}

\* generic_service.py:567-585. The Catalog model is given by its attributes in the
\* data model (remote catalog id, name, category, app, vtex_app, feeds): the message
\* of the second ValueError reads vtex_catalog.catalog_id, which a Catalog lacks
validate_link_apps(wpp, vtex_catalog) ==
    IF vtex_catalog = Nil
    THEN Raised("ValueError", "There must be a catalog linked to the vtex app")
    ELSE IF ~catalog_found(wpp, vtex_catalog[2])
    THEN Raised("AttributeError", "catalog_id")
    ELSE NoOutcome

\* _validate_sync_status left out
sync_status_not_validated(cfg) == NoOutcome

\* generic_service.py:545-551
validate_sync_status(cfg) ==
    IF ~cfg.initial_sync_completed
    THEN Raised("ValueError", "Initial synchronization not completed.")
    ELSE NoOutcome

\* _validate_connected_catalog_flag left out
connected_flag_not_validated(cfg) == NoOutcome

\* generic_service.py:587-596
validate_connected_catalog_flag(cfg) ==
    IF cfg.connected_catalog # TRUE
    THEN Raised("ValueError", "Change connected_catalog to True.")
    ELSE NoOutcome

\* generic_service.py:598-603
validate_catalog_feed(total) ==
    IF total = 0
    THEN Raised("ValueError", "At least 1 feed created is required")
    ELSE NoOutcome

\* generic_service.py:605-609
use_sync_v2(cfg) == cfg.use_sync_v2

\* generic_service.py:503-521: what raises first, NoOutcome when nothing does
by_seller_checks(cfg, sellers, vtex_catalog) ==
    LET wpp == cfg.wpp_cloud_uuid
    IN IF sellers = <<>> THEN Raised("ValueError", "'sellers' is required.")
       ELSE IF get_wpp_cloud_uuid(cfg) # NoOutcome THEN get_wpp_cloud_uuid(cfg)
       ELSE IF get_credentials(cfg) # NoOutcome THEN get_credentials(cfg)
       ELSE IF get_wpp_cloud(wpp) # NoOutcome THEN get_wpp_cloud(wpp)
       ELSE IF validate_link_apps(wpp, vtex_catalog) # NoOutcome
            THEN validate_link_apps(wpp, vtex_catalog)
       ELSE IF validate_sync_status(cfg) # NoOutcome THEN validate_sync_status(cfg)
       ELSE IF use_sync_v2(cfg) = FALSE
               /\ validate_catalog_feed(catalog_feeds[wpp][vtex_catalog[2]]) # NoOutcome
            THEN validate_catalog_feed(catalog_feeds[wpp][vtex_catalog[2]])
       ELSE validate_connected_catalog_flag(cfg)

\* the task is sent before the validations are run
send_task_then_validate(b, sellers, vtex_catalog) ==
    /\ IF vtex_catalogs(request_app(b)) = {}
       THEN vtex_catalog = Nil
       ELSE vtex_catalog \in vtex_catalogs(request_app(b))
    /\ jobs["task_insert_vtex_products_by_sellers"] < MaxJobs
    /\ jobs' = [jobs EXCEPT !["task_insert_vtex_products_by_sellers"] = @ + 1]
    /\ LET raised == by_seller_checks(config, sellers, vtex_catalog)
       IN ended' = [ended EXCEPT ![b] =
                IF raised # NoOutcome THEN raised
                ELSE Dispatched(<<config.wpp_cloud_uuid, vtex_catalog[2]>>, {})]
    /\ UNCHANGED <<redis, lockVars, spc, scursor, slocal, slisting, wanted, syncHist,
                   catalogVars, dbVars, jobVars, passVars, sendVars, config, onboard,
                   codecVars>>

\* generic_service.py:503-523: vtex_catalog is what vtex_app.vtex_catalogs.first()
\* returns, any of the linked rows (the query has no ordering) or None
start_insertion_by_seller(b, sellers, vtex_catalog) ==
    /\ IF vtex_catalogs(request_app(b)) = {}
       THEN vtex_catalog = Nil
       ELSE vtex_catalog \in vtex_catalogs(request_app(b))
    /\ LET raised == by_seller_checks(config, sellers, vtex_catalog)
       IN IF raised # NoOutcome
          THEN /\ ended' = [ended EXCEPT ![b] = raised]
               /\ UNCHANGED jobs
          ELSE /\ jobs["task_insert_vtex_products_by_sellers"] < MaxJobs
               /\ jobs' = [jobs EXCEPT !["task_insert_vtex_products_by_sellers"] = @ + 1]
               /\ ended' = [ended EXCEPT ![b] =
                     Dispatched(<<config.wpp_cloud_uuid, vtex_catalog[2]>>, {})]
    /\ UNCHANGED <<redis, lockVars, spc, scursor, slocal, slisting, wanted, syncHist,
                   catalogVars, dbVars, jobVars, passVars, sendVars, config, onboard,
                   codecVars>>

\* the rows vtex_catalogs.first() may return
LinkedRows == (ConfiguredApps \X CatalogIds) \cup {Nil}

\* configure with the two flags left as they were
configure_keeping_flags(cfg, credentials, wpp_cloud_uuid) ==
    [cfg EXCEPT !.api_credentials = credentials, !.wpp_cloud_uuid = wpp_cloud_uuid,
                !.use_sync_v2 = TRUE]

\* generic_service.py:81-99: the keys of app.config that admission reads
configure(cfg, credentials, wpp_cloud_uuid) ==
    [cfg EXCEPT !.api_credentials = credentials, !.wpp_cloud_uuid = wpp_cloud_uuid,
                !.initial_sync_completed = FALSE, !.connected_catalog = FALSE,
                !.use_sync_v2 = TRUE]

\* the app is configured (again), with all credentials and the wpp-cloud app w1
Configure ==
    /\ \A i \in Admissions : spc[i] = "idle"
    /\ onboard # "configured"
    /\ config' = configure(config, CredentialKeys, "w1")
    /\ onboard' = "configured"
    /\ UNCHANGED <<redis, lockVars, spc, scursor, slocal, slisting, wanted, syncHist,
                   catalogVars, dbVars, jobVars, passVars, sendVars, jobs, ended, codecVars>>

\* AppManager.initial_sync_products_completed(app): the flag of `app` is set; the
\* configuration kept here is that of the requesting app
initial_sync_products_completed(cfg, app, requester) ==
    IF app = requester THEN [cfg EXCEPT !.initial_sync_completed = TRUE] ELSE cfg

\* generic_service.py:141-162, run by the task that admission `i` sent:
\* list_all_products returns (`listed`) or raises; only when it returns is the flag
\* of catalog.vtex_app set
first_product_insert(i, listed) ==
    /\ ended[i].kind = "dispatched"
    /\ spc[i] = "idle"
    /\ LET catalog == ended[i].catalog
           linked == catalog_vtex_app[catalog[1]][catalog[2]]
       IN /\ config' = IF listed
                        THEN initial_sync_products_completed(config, linked, request_app(i))
                        ELSE config
          /\ onboard' = IF listed /\ linked = request_app(i) /\ onboard = "configured"
                         THEN "inserted" ELSE onboard
          /\ ended' = [ended EXCEPT ![i] =
                [@ EXCEPT !.kind = IF listed THEN "inserted" ELSE "insert_failed"]]
    /\ UNCHANGED <<redis, lockVars, spc, scursor, slocal, slisting, wanted, syncHist,
                   catalogVars, dbVars, jobVars, passVars, sendVars, jobs, codecVars>>

\* the app is configured, admitted and its first insertion task runs
NextOnboard ==
    \/ Configure
    \/ \E i \in Admissions : FirstInsert(i)
    \/ \E i \in Admissions, listed \in BOOLEAN : first_product_insert(i, listed)
    \/ \E b \in SellerRequests, sellers \in SellerLists \cup {<<>>}, row \in LinkedRows :
            /\ \A i \in Admissions : spc[i] = "idle"
            /\ start_insertion_by_seller(b, sellers, row)

HTTP_200_OK == 200
HTTP_400_BAD_REQUEST == 400

\* an except clause that catches ValueError only
synchronized_sellers_catching_value_errors(outcome) ==
    CASE outcome.kind = "dispatched" -> "True"
      [] outcome.kind = "ValueError" -> "False"
      [] OTHER -> "raises"

\* generic_service.py:121-136: `except Exception` turns whatever
\* start_insertion_by_seller raised into False
synchronized_sellers(outcome) ==
    IF outcome.kind = "dispatched" THEN "True" ELSE "False"

\* views.py:102-117, after the serializer has accepted the request; 0 stands for
\* no response of the view, when an exception leaves it
sync_sellers_response(success) ==
    CASE success = "True" -> HTTP_200_OK
      [] success = "False" -> HTTP_400_BAD_REQUEST
      [] OTHER -> 0

\* a request to the sync-vtex-sellers endpoint
sync_sellers(b, sellers, vtex_catalog) ==
    /\ IF vtex_catalogs(request_app(b)) = {}
       THEN vtex_catalog = Nil
       ELSE vtex_catalog \in vtex_catalogs(request_app(b))
    /\ LET raised == by_seller_checks(config, sellers, vtex_catalog)
           outcome == IF raised # NoOutcome THEN raised
                      ELSE Dispatched(<<config.wpp_cloud_uuid, vtex_catalog[2]>>, {})
           success == synchronized_sellers(outcome)
       IN /\ raised = NoOutcome => jobs["task_insert_vtex_products_by_sellers"] < MaxJobs
          /\ jobs' = IF raised = NoOutcome
                     THEN [jobs EXCEPT !["task_insert_vtex_products_by_sellers"] = @ + 1]
                     ELSE jobs
          /\ ended' = [ended EXCEPT ![b] =
                [outcome EXCEPT !.returned = success,
                                !.response = sync_sellers_response(success)]]
    /\ UNCHANGED <<redis, lockVars, spc, scursor, slocal, slisting, wanted, syncHist,
                   catalogVars, dbVars, jobVars, passVars, sendVars, config, onboard,
                   codecVars>>

\* first insertions and requests to the endpoint, one after another
NextView ==
    \/ \E i \in Admissions : FirstInsert(i)
    \/ \E b \in SellerRequests, sellers \in SellerLists \cup {<<>>}, row \in LinkedRows :
            /\ \A i \in Admissions : spc[i] = "idle"
            /\ sync_sellers(b, sellers, row)

\* a scheduled reconciliation and a first-insertion admission
NextAdmit ==
    \/ SyncStart("t1")
    \/ Pass("t1")
    \/ SyncReturn("t1")
    \/ \E i \in Admissions, c \in CatalogIds : GetCatalog(i, c)
    \/ \E i \in Admissions : sync_catalogs(i)
    \/ \E i \in Admissions : GetCatalogAgain(i)
    \/ \E i \in Admissions : AdmissionReturn(i)
    \/ \E i \in Admissions : FirstInsertAdmit(i)

\* the two admissions of one VTEX app, one request after another
NextGate ==
    \/ \E i \in Admissions : FirstInsert(i)
    \/ \E b \in SellerRequests, sellers \in SellerLists \cup {<<>>}, row \in LinkedRows :
            /\ \A i \in Admissions : spc[i] = "idle"
            /\ start_insertion_by_seller(b, sellers, row)

(***************************************************************************)
(* UploadProduct, ProductUploadLog                                         *)
(***************************************************************************)
batch_size == 1

Uploaders == {"u1", "u2"}
UploadProductIds == {1, 2, 3}
Times == {1, 2}
Statuses == {"pending", "processing", "success", "error"}

\* catalog.vtex_app
vtex_app(catalog) == IF catalog = "c1" THEN "a1" ELSE "a2"

\* UploadProduct.catalog; rows are unique on (catalog, facebook_product_id)
row_catalog(id) == IF id \in {1, 2} THEN "c1" ELSE "c2"

\* UploadProduct.facebook_product_id, "sku_id#seller_id", as a string of characters
facebook_product_id(id) ==
    CASE id = 1 -> <<"5", "5", "#", "7">>
      [] id = 2 -> <<"a", "b", "c", "#", "7">>
      [] OTHER  -> <<"5", "5", "#", "7">>

DigitValue == [c \in {"0", "1", "2", "3", "4", "5", "6", "7", "8", "9"} |->
    CASE c = "0" -> 0 [] c = "1" -> 1 [] c = "2" -> 2 [] c = "3" -> 3 [] c = "4" -> 4
      [] c = "5" -> 5 [] c = "6" -> 6 [] c = "7" -> 7 [] c = "8" -> 8 [] OTHER -> 9]

\* product_id.split("#")[0]
sku_part(product_id) ==
    LET hashes == {i \in 1..Len(product_id) : product_id[i] = "#"}
        first == IF hashes = {} THEN Len(product_id) + 1
                 ELSE CHOOSE i \in hashes : \A j \in hashes : i <= j
    IN SubSeq(product_id, 1, first - 1)

\* str.isdigit(): false for the empty string, true of the decimal digits and of
\* the other characters of numeric type Digit, such as superscript two
isdigit(str) ==
    Len(str) > 0 /\ \A i \in 1..Len(str) : str[i] \in DOMAIN DigitValue \cup {"U+00B2"}

\* int(str) accepts decimal digits only
isdecimal(str) == \A i \in 1..Len(str) : str[i] \in DOMAIN DigitValue

RECURSIVE to_int(_)
to_int(str) ==
    IF Len(str) = 0 THEN 0
    ELSE 10 * to_int(SubSeq(str, 1, Len(str) - 1)) + DigitValue[str[Len(str)]]

\* the SKU part is returned as it is
sku_part_unchecked(product_id) == [raises |-> FALSE, value |-> 0]

\* utils.py:155-161: raises ValueError when the SKU part is not a number (the raise
\* statement, or int() for a digit that is not decimal)
extract_sku_id(product_id) ==
    IF isdigit(sku_part(product_id)) /\ isdecimal(sku_part(product_id))
    THEN [raises |-> FALSE, value |-> to_int(sku_part(product_id))]
    ELSE [raises |-> TRUE, value |-> 0]

SkuIds == {extract_sku_id(facebook_product_id(id)).value :
            id \in {i \in UploadProductIds : ~extract_sku_id(facebook_product_id(i)).raises}}

\* UploadProduct.objects.filter(catalog=catalog, status="pending")
pending_rows(st, catalog) ==
    {id \in UploadProductIds : row_catalog(id) = catalog /\ st[id] = "pending"}

\* .order_by("modified_on")[:batch_size] over the pending rows: every result the
\* database may give, rows of equal modified_on being in no fixed order
AnyBatch(st, mo, catalog) ==
    LET pending == pending_rows(st, catalog)
        n == IF Cardinality(pending) < batch_size THEN Cardinality(pending) ELSE batch_size
    IN {sel \in SUBSET pending : Cardinality(sel) = n}

oldest_pending(st, mo, catalog) ==
    LET pending == pending_rows(st, catalog)
    IN {sel \in AnyBatch(st, mo, catalog) :
            \A r \in sel, q \in pending \ sel : mo[r] <= mo[q]}

\* UploadProduct.objects.filter(id__in=product_ids).update(status="processing")
mark_every_pending(st, ids) ==
    [id \in UploadProductIds |-> IF st[id] = "pending" THEN "processing" ELSE st[id]]

mark_processing(st, ids) ==
    [id \in UploadProductIds |-> IF id \in ids THEN "processing" ELSE st[id]]

\* filter(facebook_product_id__in=product_ids, status="processing").update(status=...)
mark_products_as_sent(st, fb_ids) ==
    [id \in UploadProductIds |->
        IF facebook_product_id(id) \in fb_ids /\ st[id] = "processing"
        THEN "success" ELSE st[id]]

mark_products_as_error(st, fb_ids) ==
    [id \in UploadProductIds |->
        IF facebook_product_id(id) \in fb_ids /\ st[id] = "processing"
        THEN "error" ELSE st[id]]

\* ProductUploadLog.objects.create(sku_id=..., vtex_app=...) for each id of `fb_ids`
log_rows(lg, fb_ids, app) ==
    [k \in DOMAIN lg |->
        IF k[2] = app /\ \E f \in fb_ids : ~extract_sku_id(f).raises /\ extract_sku_id(f).value = k[1]
        THEN lg[k] + Cardinality({f \in fb_ids :
                    ~extract_sku_id(f).raises /\ extract_sku_id(f).value = k[1]})
        ELSE lg[k]]

(***************************************************************************)
(* ProductUploadManager.convert_to_csv                                     *)
(***************************************************************************)
MaxText == 2

\* the characters of UploadProduct.data: a letter, the two quotes, the line feed
\* and a letter outside ASCII
DataChars == {"a", "\"", "'", "\n", "U+00E9"}

RECURSIVE TextsUpTo(_)
TextsUpTo(n) ==
    IF n = 0 THEN {<<>>}
    ELSE TextsUpTo(n - 1) \cup
            {Append(t, ch) : t \in {x \in TextsUpTo(n - 1) : Len(x) = n - 1}, ch \in DataChars}

Texts == TextsUpTo(MaxText)

\* utils.py:179
header ==
    <<"i", "d", ",", "t", "i", "t", "l", "e", ",", "d", "e", "s", "c", "r", "i",
      "p", "t", "i", "o", "n", ",", "a", "v", "a", "i", "l", "a", "b", "i", "l",
      "i", "t", "y", ",", "s", "t", "a", "t", "u", "s", ",", "c", "o", "n", "d",
      "i", "t", "i", "o", "n", ",", "p", "r", "i", "c", "e", ",", "l", "i", "n",
      "k", ",", "i", "m", "a", "g", "e", "_", "l", "i", "n", "k", ",", "b", "r",
      "a", "n", "d", ",", "s", "a", "l", "e", "_", "p", "r", "i", "c", "e">>

\* str.encode("utf-8"), character by character
Utf8 ==
    "," :> <<44>> @@ "_" :> <<95>> @@ "a" :> <<97>> @@ "b" :> <<98>> @@ "c" :>
    <<99>> @@ "d" :> <<100>> @@ "e" :> <<101>> @@ "g" :> <<103>> @@ "i" :> <<105>>
    @@ "k" :> <<107>> @@ "l" :> <<108>> @@ "m" :> <<109>> @@ "n" :> <<110>> @@ "o"
    :> <<111>> @@ "p" :> <<112>> @@ "r" :> <<114>> @@ "s" :> <<115>> @@ "t" :>
    <<116>> @@ "u" :> <<117>> @@ "v" :> <<118>> @@ "y" :> <<121>> @@ " " :> <<32>>
    @@ "\"" :> <<34>> @@ "'" :> <<39>> @@ "\n" :> <<10>> @@ "U+00E9" :> <<195, 169>>

RECURSIVE encode(_)
encode(text) == IF text = <<>> THEN <<>> ELSE Utf8[Head(text)] \o encode(Tail(text))

\* utils.py:240-243: text.replace('"', "").replace("'", " ")
escape_quotes(text) ==
    LET stripped == SelectSeq(text, LAMBDA ch : ch # "\"")
    IN [n \in 1..Len(stripped) |-> IF stripped[n] = "'" THEN " " ELSE stripped[n]]

\* "\n".join(csv_lines)
RECURSIVE join(_)
join(csv_lines) ==
    IF Len(csv_lines) = 0 THEN <<>>
    ELSE IF Len(csv_lines) = 1 THEN csv_lines[1]
    ELSE csv_lines[1] \o <<"\n">> \o join(Tail(csv_lines))

\* utils.py:177-196: products is the sequence of the data of the records
convert_to_csv(products, include_header) ==
    LET csv_lines == (IF include_header THEN <<header>> ELSE <<>>) \o
                        [n \in 1..Len(products) |-> escape_quotes(products[n])]
    IN encode(join(csv_lines))

\* the orders in which a query without order_by may give the rows
Orderings(ids) ==
    {order \in [1..Cardinality(ids) -> ids] :
        \A m, n \in 1..Cardinality(ids) : m # n => order[m] # order[n]}

\* a call of convert_to_csv on the rows of a query, include_header left at its default
ConvertToCsv(u, order) ==
    /\ csv_content' = [csv_content EXCEPT ![u] =
            convert_to_csv([n \in 1..Len(order) |-> data[order[n]]], TRUE)]
    /\ product_ids' = [product_ids EXCEPT ![u] = {order[n] : n \in 1..Len(order)}]
    /\ UNCHANGED <<redis, lockVars, syncVars, dbVars, upc, ucatalog, products_ids, bound_ids,
                   passVars, upload_id_in_process, upload_id, file_name, audit, incidents,
                   in_progress, uploads_made>>

\* a call of extract_sku_id
ProductIdChars == {"5", "0", "a", "#", "U+00B2"}
MaxProductId == 3

RECURSIVE ProductIdsUpTo(_)
ProductIdsUpTo(n) ==
    IF n = 0 THEN {<<>>}
    ELSE ProductIdsUpTo(n - 1) \cup
            {Append(t, ch) : t \in {x \in ProductIdsUpTo(n - 1) : Len(x) = n - 1},
                             ch \in ProductIdChars}

ExtractSkuId(product_id) ==
    /\ sku_call' = <<product_id, extract_sku_id(product_id)>>
    /\ UNCHANGED <<redis, lockVars, spc, scursor, slocal, slisting, wanted, syncHist,
                   catalogVars, admissionVars, data, dbVars, jobVars, passVars, sendVars>>

NextCsv ==
    \E u \in {"u1"}, ids \in SUBSET UploadProductIds :
        \E order \in Orderings(ids) : ConvertToCsv(u, order)

NextSku == \E product_id \in ProductIdsUpTo(MaxProductId) : ExtractSkuId(product_id)

(***************************************************************************)
(* The upload job and ProductUploader.process_and_upload                   *)
(***************************************************************************)
NoIds == {}

\* The upload task takes the per-app lock with SET NX EX and, holding it, builds a
\* ProductUploader (and with it a ProductBatchFetcher) for the catalog. A task that
\* finds the lock held returns at once.
JobStart(u, catalog) ==
    /\ upc[u] = "idle"
    /\ LET r == RedisSetNX(redis, upload_lock_key(vtex_app(catalog)), <<"locked">>)
       IN /\ r.reply
          /\ redis' = r.kv
    /\ upc' = [upc EXCEPT ![u] = "next_exists"]
    /\ ucatalog' = [ucatalog EXCEPT ![u] = catalog]
    /\ product_ids' = [product_ids EXCEPT ![u] = NoIds]
    /\ products_ids' = [products_ids EXCEPT ![u] = NoIds]
    /\ bound_ids' = [bound_ids EXCEPT ![u] = FALSE]
    /\ times_returned' = [times_returned EXCEPT ![u] = [id \in UploadProductIds |-> 0]]
    /\ pending_at_start' = [pending_at_start EXCEPT ![u] = pending_rows(status, catalog)]
    /\ renewed' = [renewed EXCEPT ![u] = Nil]
    /\ exhausted' = [exhausted EXCEPT ![u] = FALSE]
    /\ UNCHANGED <<lockVars, syncVars, dbVars, sendVars>>

\* utils.py:222-228: the first query of __next__, products.exists()
FetchExists(u) ==
    /\ upc[u] = "next_exists"
    /\ IF pending_rows(status, ucatalog[u]) = {}
       THEN /\ upc' = [upc EXCEPT ![u] = "stop"]         \* raise StopIteration
            /\ exhausted' = [exhausted EXCEPT ![u] = TRUE]
       ELSE /\ upc' = [upc EXCEPT ![u] = "next_ids"]
            /\ UNCHANGED exhausted
    /\ UNCHANGED <<redis, lockVars, syncVars, dbVars, ucatalog, product_ids, products_ids,
                   bound_ids, times_returned, pending_at_start, renewed, sendVars>>

\* utils.py:230: the second query, list(products.values_list("id", flat=True))
FetchIds(u, sel) ==
    /\ upc[u] = "next_ids"
    /\ sel \in oldest_pending(status, modified_on, ucatalog[u])
    /\ product_ids' = [product_ids EXCEPT ![u] = sel]
    /\ upc' = [upc EXCEPT ![u] = "next_update"]
    /\ UNCHANGED <<redis, lockVars, syncVars, dbVars, ucatalog, products_ids, bound_ids,
                   passVars, sendVars>>

\* utils.py:231: the update of the selected primary keys
FetchUpdate(u) ==
    /\ upc[u] = "next_update"
    /\ status' = mark_processing(status, product_ids[u])
    /\ upc' = [upc EXCEPT ![u] = "next_return"]
    /\ UNCHANGED <<redis, lockVars, syncVars, modified_on, logs, ucatalog, product_ids,
                   products_ids, bound_ids, passVars, sendVars>>

\* utils.py:232-237: the rows and their facebook_product_id are read back and
\* returned; the for statement binds products, products_ids
FetchReturn(u) ==
    /\ upc[u] = "next_return"
    /\ products_ids' = [products_ids EXCEPT ![u] =
            {facebook_product_id(id) : id \in product_ids[u]}]
    /\ bound_ids' = [bound_ids EXCEPT ![u] = TRUE]
    /\ times_returned' = [times_returned EXCEPT ![u] =
            [id \in UploadProductIds |-> IF id \in product_ids[u] THEN @[id] + 1 ELSE @[id]]]
    /\ renewed' = [renewed EXCEPT ![u] = Nil]
    /\ upc' = [upc EXCEPT ![u] = "send"]
    /\ UNCHANGED <<redis, lockVars, syncVars, dbVars, ucatalog, product_ids, pending_at_start,
                   exhausted, sendVars>>

\* utils.py:58-59: convert_to_csv, then send_to_meta, which returns True or False
\* (it catches every exception of the provider client itself)
SendToMeta(u, sent) ==
    /\ upc[u] = "send"
    /\ upc' = [upc EXCEPT ![u] = IF sent THEN "mark_sent" ELSE "mark_error"]
    /\ UNCHANGED <<redis, lockVars, syncVars, dbVars, ucatalog, product_ids, products_ids,
                   bound_ids, passVars, sendVars>>

\* utils.py:60
MarkSent(u) ==
    /\ upc[u] = "mark_sent"
    /\ status' = mark_products_as_sent(status, products_ids[u])
    /\ upc' = [upc EXCEPT ![u] = "log"]
    /\ UNCHANGED <<redis, lockVars, syncVars, modified_on, logs, ucatalog, product_ids,
                   products_ids, bound_ids, passVars, sendVars>>

\* utils.py:61, 144-153: one ProductUploadLog row per product id, in list order; the
\* first id whose SKU part is not a number raises ValueError out of the loop body,
\* after the rows of the ids before it were written
LogSent(u, written) ==
    /\ upc[u] = "log"
    /\ LET valid == {f \in products_ids[u] : ~extract_sku_id(f).raises}
       IN /\ written \subseteq valid
          /\ valid = products_ids[u] => written = valid
          /\ logs' = log_rows(logs, written, vtex_app(ucatalog[u]))
          /\ upc' = [upc EXCEPT ![u] = IF valid = products_ids[u] THEN "expire" ELSE "except"]
    /\ UNCHANGED <<redis, lockVars, syncVars, status, modified_on, ucatalog, product_ids,
                   products_ids, bound_ids, passVars, sendVars>>

\* utils.py:64
MarkError(u) ==
    /\ upc[u] = "mark_error"
    /\ status' = mark_products_as_error(status, products_ids[u])
    /\ upc' = [upc EXCEPT ![u] = "expire"]
    /\ UNCHANGED <<redis, lockVars, syncVars, modified_on, logs, ucatalog, product_ids,
                   products_ids, bound_ids, passVars, sendVars>>

\* the lock_key argument of process_and_upload: the key the job took
lock_key(u) == upload_lock_key(vtex_app(ucatalog[u]))

\* the for loop calls next() again without an EXPIRE of the lock key
RenewLockSkipped(u) ==
    /\ upc[u] = "expire"
    /\ upc' = [upc EXCEPT ![u] = "next_exists"]
    /\ UNCHANGED <<redis, lockVars, syncVars, dbVars, ucatalog, product_ids, products_ids,
                   bound_ids, passVars, sendVars>>

\* utils.py:69: redis_client.expire(lock_key, lock_expiration_time) restarts the TTL
\* of whatever key is stored under lock_key (a key that is present stays present,
\* an absent key stays absent); then the for loop calls next() again
RenewLock(u) ==
    /\ upc[u] = "expire"
    /\ renewed' = [renewed EXCEPT ![u] = lock_key(u)]
    /\ upc' = [upc EXCEPT ![u] = "next_exists"]
    /\ UNCHANGED <<redis, lockVars, syncVars, dbVars, ucatalog, product_ids, products_ids,
                   bound_ids, times_returned, pending_at_start, exhausted, sendVars>>

\* utils.py:57: StopIteration ends the for statement and process_and_upload returns
LoopEnd(u) ==
    /\ upc[u] = "stop"
    /\ upc' = [upc EXCEPT ![u] = "release"]
    /\ UNCHANGED <<redis, lockVars, syncVars, dbVars, ucatalog, product_ids, products_ids,
                   bound_ids, passVars, sendVars>>

\* utils.py:71-77: the except clause; it reads products_ids, which is unbound until
\* the for statement has bound a batch: UnboundLocalError leaves process_and_upload
ExceptHandler(u) ==
    /\ upc[u] = "except"
    /\ IF bound_ids[u]
       THEN /\ status' = mark_products_as_error(status, products_ids[u])
            /\ upc' = [upc EXCEPT ![u] = "release"]
       ELSE /\ status' = status
            /\ upc' = [upc EXCEPT ![u] = "raised"]
    /\ UNCHANGED <<redis, lockVars, syncVars, modified_on, logs, ucatalog, product_ids,
                   products_ids, bound_ids, passVars, sendVars>>

\* process_and_upload has returned; the task deletes the lock key and ends
JobRelease(u) ==
    /\ upc[u] = "release"
    /\ redis' = RedisDelete(redis, upload_lock_key(vtex_app(ucatalog[u])))
    /\ upc' = [upc EXCEPT ![u] = "idle"]
    /\ UNCHANGED <<lockVars, syncVars, dbVars, ucatalog, product_ids, products_ids,
                   bound_ids, passVars, sendVars>>


(***************************************************************************)
(* A ProductBatchFetcher and a caller that keeps calling next()            *)
(***************************************************************************)
MaxReturned == 2

\* next() is called on the fetcher once more, after a batch or after StopIteration
CallNext(u) ==
    /\ upc[u] \in {"send", "stop"}
    /\ upc' = [upc EXCEPT ![u] = "next_exists"]
    /\ UNCHANGED <<redis, lockVars, syncVars, dbVars, ucatalog, product_ids, products_ids,
                   bound_ids, passVars, sendVars>>

\* a re-sync puts a row that was fetched back to pending
Requeue(id) ==
    /\ status[id] # "pending"
    /\ \A u \in Uploaders : times_returned[u][id] < MaxReturned
    /\ status' = [status EXCEPT ![id] = "pending"]
    /\ UNCHANGED <<redis, lockVars, syncVars, modified_on, logs, jobVars, passVars, sendVars>>

NextFetcher ==
    \/ \E catalog \in Catalogs : JobStart("u1", catalog)
    \/ FetchExists("u1")
    \/ \E sel \in SUBSET UploadProductIds : FetchIds("u1", sel)
    \/ FetchUpdate("u1")
    \/ FetchReturn("u1")
    \/ CallNext("u1")
    \/ \E id \in UploadProductIds : Requeue(id)

(***************************************************************************)
(* ProductUploader.send_to_meta, step by step, and the catalog provider    *)
(***************************************************************************)
Feeds == {"f1", "f2"}

\* self.feed_id: catalog.feeds.first().facebook_feed_id
feed_id(catalog) == IF catalog = "c1" THEN "f1" ELSE "f2"

\* utils.py:93-94: f"update_{current_time}_{catalog.facebook_catalog_id}"
update_file_name(catalog) == IF catalog = "c1" THEN "update_c1" ELSE "update_c2"

\* a failure log whose attachment is missing
generate_log_without_file(catalog, csv, exception, name, id) ==
    [catalog |-> catalog, vtex_app |-> vtex_app(catalog), feed_id |-> feed_id(catalog),
     file_name |-> name, upload_id |-> id, attachment |-> Nil, exception |-> exception]

\* utils.py:163-173 and 246-260: the data of the failure log and its attachment
generate_file_upload_log(catalog, csv, exception, name, id) ==
    [catalog |-> catalog, vtex_app |-> vtex_app(catalog), feed_id |-> feed_id(catalog),
     file_name |-> name, upload_id |-> id, attachment |-> csv, exception |-> exception]

\* FacebookService.uploads_in_progress(feed_id): the id of an upload of the feed
\* that has not completed, or a falsy value when there is none
uploads_in_progress(feed) == IF in_progress[feed] = {} THEN {Nil} ELSE in_progress[feed]

\* FacebookService._wait_for_upload_completion(feed_id, upload_id) polls the upload
\* for a bounded time: it returns True once the upload has completed, False when
\* the time is over and the upload has not completed, or the client raises
wait_for_upload_completion(feed, id) ==
    {"raises"} \cup (IF id \in in_progress[feed] THEN {"timeout"} ELSE {"complete"})

\* the provider finishes an upload
UploadCompletes(feed, id) ==
    /\ id \in in_progress[feed]
    /\ in_progress' = [in_progress EXCEPT ![feed] = @ \ {id}]
    /\ UNCHANGED <<redis, lockVars, syncVars, dbVars, jobVars, passVars, csv_content,
                   upload_id_in_process, upload_id, file_name, audit, incidents, uploads_made>>

\* utils.py:58 and 81-82: the batch is encoded, send_to_meta is entered and sets
\* its locals
Encode(u) ==
    /\ upc[u] = "send"
    /\ \E order \in Orderings(product_ids[u]) :
            csv_content' = [csv_content EXCEPT ![u] =
                convert_to_csv([n \in 1..Len(order) |-> data[order[n]]], TRUE)]
    /\ upload_id' = [upload_id EXCEPT ![u] = Nil]
    /\ upload_id_in_process' = [upload_id_in_process EXCEPT ![u] = Nil]
    /\ file_name' = [file_name EXCEPT ![u] = "DefaultFile.csv"]
    /\ audit' = [audit EXCEPT ![u] = <<>>]
    /\ incidents' = [incidents EXCEPT ![u] = 0]
    /\ upc' = [upc EXCEPT ![u] = "uploads_in_progress"]
    /\ UNCHANGED <<redis, lockVars, syncVars, dbVars, ucatalog, product_ids, products_ids,
                   bound_ids, passVars, in_progress, uploads_made>>

\* utils.py:84-85
SendCheck(u, found, raises) ==
    /\ upc[u] = "uploads_in_progress"
    /\ IF raises
       THEN /\ found = Nil
            /\ upc' = [upc EXCEPT ![u] = "send_except"]
            /\ UNCHANGED upload_id_in_process
       ELSE /\ found \in uploads_in_progress(feed_id(ucatalog[u]))
            /\ upload_id_in_process' = [upload_id_in_process EXCEPT ![u] = found]
            /\ upc' = [upc EXCEPT ![u] = IF found # Nil THEN "wait_prior" ELSE "submit"]
    /\ UNCHANGED <<redis, lockVars, syncVars, dbVars, ucatalog, product_ids, products_ids,
                   bound_ids, passVars, csv_content, upload_id, file_name, audit, incidents,
                   in_progress, uploads_made>>

\* utils.py:86-91: the value _wait_for_upload_completion returns is not looked at
SendWaitPrior(u, outcome) ==
    /\ upc[u] = "wait_prior"
    /\ outcome \in wait_for_upload_completion(feed_id(ucatalog[u]), upload_id_in_process[u])
    /\ upc' = [upc EXCEPT ![u] = IF outcome = "raises" THEN "send_except" ELSE "submit"]
    /\ UNCHANGED <<redis, lockVars, syncVars, dbVars, ucatalog, product_ids, products_ids,
                   bound_ids, passVars, sendVars>>

\* utils.py:93-105: update_product_feed returns the id of the upload the provider
\* started, or None, or raises
SendSubmit(u, outcome) ==
    /\ upc[u] = "submit"
    /\ outcome \in {"accepted", "none", "raises"}
    /\ file_name' = [file_name EXCEPT ![u] = update_file_name(ucatalog[u])]
    /\ CASE outcome = "accepted" ->
                /\ uploads_made' = uploads_made + 1
                /\ upload_id' = [upload_id EXCEPT ![u] = <<uploads_made + 1>>]
                /\ in_progress' = [in_progress EXCEPT ![feed_id(ucatalog[u])] =
                                        @ \cup {<<uploads_made + 1>>}]
                /\ upc' = [upc EXCEPT ![u] = "wait_upload"]
                /\ UNCHANGED audit
         [] outcome = "none" ->
                /\ audit' = [audit EXCEPT ![u] = Append(@,
                        generate_file_upload_log(ucatalog[u], csv_content[u], "ValueError",
                                                 update_file_name(ucatalog[u]), Nil))]
                /\ upc' = [upc EXCEPT ![u] = "mark_error"]
                /\ UNCHANGED <<upload_id, in_progress, uploads_made>>
         [] OTHER ->
                /\ upc' = [upc EXCEPT ![u] = "send_except"]
                /\ UNCHANGED <<upload_id, in_progress, uploads_made, audit>>
    /\ UNCHANGED <<redis, lockVars, syncVars, dbVars, ucatalog, product_ids, products_ids,
                   bound_ids, passVars, csv_content, upload_id_in_process, incidents>>

\* the timeout of the completion poll reaches the batch loop as an exception
upload_wait_raising(outcome) ==
    CASE outcome = "complete" -> "mark_sent"
      [] outcome = "timeout" -> "except"
      [] OTHER -> "send_except"

\* utils.py:107-123: where send_to_meta goes after the completion poll: return
\* True, log and return False, or the except clause
upload_wait_result(outcome) ==
    CASE outcome = "complete" -> "mark_sent"
      [] outcome = "timeout" -> "mark_error"
      [] OTHER -> "send_except"

\* utils.py:107-123
SendWaitUpload(u, outcome) ==
    /\ upc[u] = "wait_upload"
    /\ outcome \in wait_for_upload_completion(feed_id(ucatalog[u]), upload_id[u])
    /\ audit' = [audit EXCEPT ![u] =
            IF outcome = "timeout"
            THEN Append(@, generate_file_upload_log(ucatalog[u], csv_content[u],
                                "TimeoutError", file_name[u], upload_id[u]))
            ELSE @]
    /\ upc' = [upc EXCEPT ![u] = upload_wait_result(outcome)]
    /\ UNCHANGED <<redis, lockVars, syncVars, dbVars, ucatalog, product_ids, products_ids,
                   bound_ids, passVars, csv_content, upload_id_in_process, upload_id,
                   file_name, incidents, in_progress, uploads_made>>

\* utils.py:124-142: the except clause of send_to_meta logs, tries to notify
\* (a failure to notify is printed) and returns False
SendExcept(u) ==
    /\ upc[u] = "send_except"
    /\ audit' = [audit EXCEPT ![u] = Append(@,
            generate_file_upload_log(ucatalog[u], csv_content[u], "Exception",
                                     file_name[u], upload_id[u]))]
    /\ incidents' = [incidents EXCEPT ![u] = @ + 1]
    /\ upc' = [upc EXCEPT ![u] = "mark_error"]
    /\ UNCHANGED <<redis, lockVars, syncVars, dbVars, ucatalog, product_ids, products_ids,
                   bound_ids, passVars, csv_content, upload_id_in_process, upload_id,
                   file_name, in_progress, uploads_made>>

\* utils.py:58, 60, 64, 69: convert_to_csv, a status update or the EXPIRE raises
\* (a record that cannot be encoded, the database or Redis not answering)
BodyRaises(u) ==
    /\ upc[u] \in {"send", "mark_sent", "mark_error", "expire"}
    /\ upc' = [upc EXCEPT ![u] = "except"]
    /\ UNCHANGED <<redis, lockVars, syncVars, dbVars, ucatalog, product_ids, products_ids,
                   bound_ids, passVars, sendVars>>

\* utils.py:57, 221-237: a query or the update of __next__ raises (the database not
\* answering); the rows the update has already written stay written
FetchRaises(u) ==
    /\ upc[u] \in {"next_exists", "next_ids", "next_update", "next_return"}
    /\ upc' = [upc EXCEPT ![u] = "except"]
    /\ UNCHANGED <<redis, lockVars, syncVars, dbVars, ucatalog, product_ids, products_ids,
                   bound_ids, passVars, sendVars>>

JobLoop(u) ==
    \/ \E c \in Catalogs : JobStart(u, c)
    \/ FetchExists(u)
    \/ \E sel \in SUBSET UploadProductIds : FetchIds(u, sel)
    \/ FetchUpdate(u)
    \/ FetchReturn(u)
    \/ MarkSent(u)
    \/ \E written \in SUBSET {facebook_product_id(id) : id \in UploadProductIds} :
            LogSent(u, written)
    \/ MarkError(u)
    \/ RenewLock(u)
    \/ LoopEnd(u)
    \/ ExceptHandler(u)
    \/ JobRelease(u)

\* the job with send_to_meta as one step
Job(u) ==
    \/ JobLoop(u)
    \/ \E sent \in BOOLEAN : SendToMeta(u, sent)

UploadIds == {<<n>> : n \in 1..Cardinality(UploadProductIds)}

\* the job with send_to_meta step by step, and failures of the loop body
JobBatch(u) ==
    \/ JobLoop(u)
    \/ Encode(u)
    \/ \E found \in UploadIds \cup {Nil}, raises \in BOOLEAN : SendCheck(u, found, raises)
    \/ \E outcome \in {"complete", "timeout", "raises"} : SendWaitPrior(u, outcome)
    \/ \E outcome \in {"accepted", "none", "raises"} : SendSubmit(u, outcome)
    \/ \E outcome \in {"complete", "timeout", "raises"} : SendWaitUpload(u, outcome)
    \/ SendExcept(u)
    \/ BodyRaises(u)

NextUpload ==
    \/ \E u \in Uploaders : Job(u)
    \/ \E a \in VtexApps : Expires(upload_lock_key(a))

\* one uploader at a time, and no lock expiry: a single pass after another
NextPass == Job("u1")

\* one uploader at a time, with failures of the fetch
NextFetchFail ==
    \/ Job("u1")
    \/ FetchRaises("u1")

\* one uploader at a time, its provider calls and the provider
NextBatch ==
    \/ JobBatch("u1")
    \/ \E f \in Feeds, id \in UploadIds : UploadCompletes(f, id)

(***************************************************************************)
(* Specifications                                                          *)
(***************************************************************************)
InitEngine ==
    /\ redis = [k \in Keys |-> Nil]
    /\ lpc = [s \in LockCallers |-> "idle"]
    /\ lresult = [s \in LockCallers |-> Nil]
    /\ granted = [k \in Keys |-> {}]
    /\ spc = [t \in Invocations |-> "idle"]
    /\ scursor = [t \in Invocations |-> 0]
    /\ slocal = [t \in Invocations |-> {}]
    /\ slisting = [t \in Invocations |-> {}]
    /\ wanted = [i \in Admissions |-> ""]
    /\ swaited = [t \in Invocations |-> FALSE]
    /\ seffects = [t \in Invocations |-> FALSE]
    /\ sfault = [t \in Invocations |-> FALSE]
    /\ sfresh = [t \in Invocations |-> FALSE]
    /\ snotified = [t \in Invocations |-> {}]
    /\ settled = FALSE
    /\ remote \in {r \in [ConfiguredApps -> SUBSET CatalogIds] :
                        \A a \in ConfiguredApps : r[a] \subseteq CatalogIdsOf(a)}
    /\ local_catalogs \in {l \in [ConfiguredApps -> [CatalogIds -> {0, 1}]] :
                        \A a \in ConfiguredApps :
                            {c \in CatalogIds : l[a][c] > 0} \subseteq CatalogIdsOf(a)}
    /\ flows = [f \in {flow_object_uuid(a) : a \in ConfiguredApps} |-> Nil]
    /\ upc = [u \in Uploaders |-> "idle"]
    /\ ucatalog = [u \in Uploaders |-> "c1"]
    /\ product_ids = [u \in Uploaders |-> NoIds]
    /\ products_ids = [u \in Uploaders |-> NoIds]
    /\ bound_ids = [u \in Uploaders |-> FALSE]
    /\ status = [id \in UploadProductIds |-> "pending"]
    /\ modified_on \in {m \in [UploadProductIds -> Times] : m[3] = 1}
    /\ logs = [k \in SkuIds \X VtexApps |-> 0]
    /\ times_returned = [u \in Uploaders |-> [id \in UploadProductIds |-> 0]]
    /\ pending_at_start = [u \in Uploaders |-> NoIds]
    /\ exhausted = [u \in Uploaders |-> FALSE]
    /\ renewed = [u \in Uploaders |-> Nil]
    /\ csv_content = [u \in Uploaders |-> Nil]
    /\ upload_id_in_process = [u \in Uploaders |-> Nil]
    /\ upload_id = [u \in Uploaders |-> Nil]
    /\ file_name = [u \in Uploaders |-> ""]
    /\ audit = [u \in Uploaders |-> <<>>]
    /\ incidents = [u \in Uploaders |-> 0]
    /\ in_progress = [f \in Feeds |-> {}]
    /\ uploads_made = 0
    /\ jobs = [n \in TaskNames |-> 0]
    /\ ended = [r \in Requests |-> NoOutcome]
    /\ onboard = "unknown"
    /\ sku_call = Nil

\* the configurations of the VTEX app: the catalog-account app is missing, is w1, is
\* w3 (which has no wa_waba_id) or names no App; one credential key is missing or
\* none is
Configs ==
    [wpp_cloud_uuid : {"", "w1", "w3", "w0"},
     api_credentials : {CredentialKeys, {"app_key", "domain"}},
     initial_sync_completed : BOOLEAN,
     connected_catalog : BOOLEAN,
     use_sync_v2 : BOOLEAN]

\* a VTEX app as configure leaves it, no catalog linked and no feed
InitApp ==
    /\ config = [wpp_cloud_uuid |-> "w1", api_credentials |-> CredentialKeys,
                 initial_sync_completed |-> FALSE, connected_catalog |-> FALSE,
                 use_sync_v2 |-> TRUE]
    /\ catalog_vtex_app = [a \in ConfiguredApps |-> [c \in CatalogIds |-> ""]]
    /\ catalog_feeds = [a \in ConfiguredApps |-> [c \in CatalogIds |-> 0]]

\* every row holds the same one-letter data
PlainData == data = [id \in UploadProductIds |-> <<"a">>]

Init == InitEngine /\ InitApp /\ PlainData

\* the lock keys of SellerSyncUtils
InitLock ==
    /\ Init
    /\ remote = [a \in ConfiguredApps |-> {}]
    /\ local_catalogs = [a \in ConfiguredApps |-> [c \in CatalogIds |-> 0]]
    /\ modified_on = [id \in UploadProductIds |-> 1]

\* the reconciler
InitSync ==
    /\ Init
    /\ modified_on = [id \in UploadProductIds |-> 1]

\* a scheduled reconciliation and an admission for a catalog of w1
InitAdmit ==
    /\ InitSync
    /\ remote["w2"] = {}
    /\ local_catalog_ids("w2") = {}

\* the admissions of a VTEX app in any configuration; catalog 101 of w1 may be
\* linked and have a feed, catalog 102 of w2 is linked to the app when it exists
InitGate ==
    /\ InitEngine
    /\ PlainData
    /\ modified_on = [id \in UploadProductIds |-> 1]
    /\ remote["w1"] \in {{}, {"101"}}
    /\ remote["w2"] = local_catalog_ids("w2")
    /\ config \in Configs
    /\ catalog_vtex_app \in
            {l \in [ConfiguredApps -> [CatalogIds -> {""} \cup VtexApps]] :
                /\ \A a \in ConfiguredApps, c \in CatalogIds :
                        local_catalogs[a][c] = 0 => l[a][c] = ""
                /\ l["w1"]["102"] = ""
                /\ l["w2"]["102"] = IF local_catalogs["w2"]["102"] > 0 THEN "a1" ELSE ""}
    /\ catalog_feeds \in
            {f \in [ConfiguredApps -> [CatalogIds -> {0, 1}]] :
                \A a \in ConfiguredApps, c \in CatalogIds :
                    f[a][c] > 0 => a = "w1" /\ c = "101" /\ local_catalogs[a][c] > 0}

\* convert_to_csv over a row of any data and two rows of fixed data
InitCsv ==
    /\ InitEngine
    /\ InitApp
    /\ modified_on = [id \in UploadProductIds |-> 1]
    /\ remote = [a \in ConfiguredApps |-> {}]
    /\ local_catalogs = [a \in ConfiguredApps |-> [c \in CatalogIds |-> 0]]
    /\ \E text \in Texts, other \in {<<"a">>, <<"'", "\"">>} :
            data = [id \in UploadProductIds |->
                        IF id = 1 THEN text ELSE IF id = 2 THEN other ELSE <<"a">>]

\* extract_sku_id over any product id
InitSku ==
    /\ InitLock
    /\ modified_on = [id \in UploadProductIds |-> 1]

\* the upload jobs
InitUpload ==
    /\ Init
    /\ remote = [a \in ConfiguredApps |-> {}]
    /\ local_catalogs = [a \in ConfiguredApps |-> [c \in CatalogIds |-> 0]]

Next ==
    \/ NextLock \/ NextSync \/ NextRecon \/ NextAdmit \/ NextGate \/ NextUpload \/ NextBatch
    \/ NextCsv \/ NextSku \/ NextFetcher \/ NextFetchFail \/ NextOnboard \/ NextView

Spec == Init /\ [][Next]_vars
SpecLock == InitLock /\ [][NextLock]_vars
SpecSync == InitSync /\ [][NextSync]_vars
SpecRecon == InitSync /\ [][NextRecon]_vars
\* a task that is inside sync_facebook_catalogs goes on to its next statement
SpecReconFair == InitSync /\ [][NextRecon]_vars /\ WF_vars(Pass("t1"))
SpecAdmit == InitAdmit /\ [][NextAdmit]_vars
SpecGate == InitGate /\ [][NextGate]_vars
SpecOnboard == InitGate /\ [][NextOnboard]_vars
SpecView == InitGate /\ [][NextView]_vars
SpecCsv == InitCsv /\ [][NextCsv]_vars
SpecSku == InitSku /\ [][NextSku]_vars
SpecFetcher == InitUpload /\ [][NextFetcher]_vars
SpecFetchFail == InitUpload /\ [][NextFetchFail]_vars
SpecUpload == InitUpload /\ [][NextUpload]_vars
SpecPass == InitUpload /\ [][NextPass]_vars /\ WF_vars(NextPass)
SpecBatch == InitUpload /\ [][NextBatch]_vars

(***************************************************************************)
(* SellerSyncUtils.create_lock                                             *)
(***************************************************************************)
\* C1: while a sync-sellers key exists and has not expired, at most one create_lock
\* call for its app has returned the key; every call that did not get it returned None.
C1_CreateLockExclusive ==
    /\ \A k \in Keys : Cardinality(granted[k]) <= 1
    /\ \A s \in LockCallers : lpc[s] = "refused" => lresult[s] = Nil
    /\ \A k \in Keys : granted[k] # {} => redis[k] # Nil

\* one caller holds the key of an app and another was refused while it is held
C1_Witness ==
    \E s1, s2 \in LockCallers :
        /\ s1 # s2
        /\ lpc[s1] = "got" /\ granted[lresult[s1]] = {s1}
        /\ lpc[s2] = "refused"
        /\ Cardinality({k \in Keys : redis[k] # Nil}) = 1

(***************************************************************************)
(* sync_facebook_catalogs                                                  *)
(***************************************************************************)
InBody(t) == spc[t] \in {"body", "app"}

\* C2: at most one sync_facebook_catalogs invocation at a time is inside the
\* reconciliation body.
C2_OneReconciliation == Cardinality({t \in SyncTasks : InBody(t)}) <= 1

\* one invocation is half way through the apps while another is at the lock
C2_Witness ==
    \E t1, t2 \in SyncTasks :
        /\ t1 # t2
        /\ InBody(t1) /\ scursor[t1] = 1 /\ seffects[t1]
        /\ spc[t2] = "acquire"

\* C3: lock acquisition is non-blocking: no invocation waits for the reconciliation
\* lock to be freed and then runs a pass of its own; one that found the lock taken
\* makes no listing, create, delete or notification.
C3_NonBlocking ==
    \A t \in SyncTasks : swaited[t] => ~InBody(t) /\ ~seffects[t]

(***************************************************************************)
(* ProductBatchFetcher                                                     *)
(***************************************************************************)
returned(u) == {id \in UploadProductIds : times_returned[u][id] > 0}

\* C4: when two fetchers of the same catalog call next() in any interleaving, no
\* UploadProduct row is returned in the batches of both.
C4_NoRowInTwoFetchers ==
    \A u1, u2 \in Uploaders :
        (u1 # u2 /\ upc[u1] # "idle" /\ upc[u2] # "idle" /\ ucatalog[u1] = ucatalog[u2])
            => returned(u1) \cap returned(u2) = {}

C6_BatchContract ==
    [][\A u \in Uploaders :
        /\ (upc[u] = "next_update" /\ upc'[u] = "next_return") =>
                \A id \in UploadProductIds :
                    status'[id] = IF id \in product_ids[u] THEN "processing" ELSE status[id]
        /\ (upc[u] = "next_return" /\ upc'[u] = "send") =>
                /\ Cardinality(product_ids[u]) >= 1
                /\ Cardinality(product_ids[u]) <= batch_size
                /\ \A id \in product_ids[u] : row_catalog(id) = ucatalog[u]
                /\ product_ids[u] \subseteq pending_at_start[u]
                /\ products_ids'[u] = {facebook_product_id(id) : id \in product_ids[u]}
      ]_vars

\* C7: every row of a returned batch is at most as recently modified as every row
\* of the catalog that is still pending.
C7_OldestFirst ==
    \A u \in Uploaders :
        upc[u] = "send" =>
            \A r \in product_ids[u], q \in pending_rows(status, ucatalog[u]) :
                modified_on[r] <= modified_on[q]

\* a batch was returned while a strictly newer row of the catalog stays pending
C7_Witness ==
    \E u \in Uploaders :
        /\ upc[u] = "send"
        /\ product_ids[u] # {}
        /\ \E r \in product_ids[u], q \in pending_rows(status, ucatalog[u]) :
                modified_on[r] < modified_on[q]

(***************************************************************************)
(* UploadProduct status                                                    *)
(***************************************************************************)
RECURSIVE SumOver(_, _)
SumOver(f, keys) ==
    IF keys = {} THEN 0
    ELSE LET k == CHOOSE x \in keys : TRUE IN f[k] + SumOver(f, keys \ {k})

\* number of ProductUploadLog rows of a vtex app
LogCount(lg, app) == SumOver(lg, {k \in DOMAIN lg : k[2] = app})

EngineTransitions ==
    {<<"pending", "processing">>, <<"processing", "success">>, <<"processing", "error">>}

\* C8: the engine changes a row's status only from pending to processing, from
\* processing to success or from processing to error.
C8_MonotoneStatus ==
    [][\A id \in UploadProductIds :
            status'[id] # status[id] => <<status[id], status'[id]>> \in EngineTransitions
      ]_vars

\* C9: when the upload of a batch succeeded, exactly the rows of the batch become
\* success, and exactly one ProductUploadLog row per product id of the batch is
\* appended for the catalog's vtex_app.
C9_SuccessMarksAndLogs ==
    [][\A u \in Uploaders :
        /\ (upc[u] = "mark_sent" /\ upc'[u] = "log") =>
                \A id \in UploadProductIds :
                    status'[id] = IF id \in product_ids[u] THEN "success" ELSE status[id]
        /\ (upc[u] = "log" /\ upc'[u] # "log") =>
                /\ LogCount(logs', vtex_app(ucatalog[u])) =
                        LogCount(logs, vtex_app(ucatalog[u])) + Cardinality(products_ids[u])
                /\ \A k \in DOMAIN logs :
                        /\ k[2] # vtex_app(ucatalog[u]) => logs'[k] = logs[k]
                        /\ logs'[k] - logs[k] = Cardinality({f \in products_ids[u] :
                                ~extract_sku_id(f).raises /\ extract_sku_id(f).value = k[1]})
      ]_vars

\* C10: when the upload of a batch failed, every row of the batch becomes error, no
\* ProductUploadLog row is appended, and the loop goes on to the next batch.
C10_FailureMarksError ==
    [][\A u \in Uploaders :
        (upc[u] = "mark_error" /\ upc'[u] # "mark_error") =>
            /\ \A id \in product_ids[u] : status'[id] = "error"
            /\ logs' = logs
            /\ upc'[u] = "expire"
      ]_vars

(***************************************************************************)
(* ProductUploader.process_and_upload                                      *)
(***************************************************************************)
FetchSteps == {"next_exists", "next_ids", "next_update", "next_return"}

C12_ExceptionMarksBatchError ==
    [][\A u \in Uploaders :
        upc[u] = "except" =>
            /\ upc'[u] \in {"except", "release"}
            /\ upc'[u] = "release" =>
                    /\ \A id \in product_ids[u] : status'[id] = "error"
                    /\ \A id \in UploadProductIds \ product_ids[u] : status'[id] = status[id]
      ]_vars

(***************************************************************************)
(* ProductUploader.send_to_meta                                            *)
(***************************************************************************)
\* C13: send_to_meta never calls update_product_feed for a feed while an earlier
\* upload of that feed is still in progress at the provider; when it found one in
\* progress, it goes on to submit only once that upload has completed.
C13_SingleFlightPerFeed ==
    [][\A u \in Uploaders :
        /\ (upc[u] = "wait_prior" /\ upc'[u] = "submit")
                => upload_id_in_process[u] \notin in_progress[feed_id(ucatalog[u])]
        /\ (upc[u] = "submit" /\ upc'[u] # "submit")
                => in_progress[feed_id(ucatalog[u])] = {}
      ]_vars

\* the last failure log of the current send_to_meta call is that of a timeout
TimedOut(u) ==
    Len(audit[u]) > 0 /\ audit[u][Len(audit[u])].exception = "TimeoutError"

\* C14: when the completion poll of a submitted upload runs out of time,
\* send_to_meta returns False and no exception reaches the batch loop; the loop
\* marks the batch error, renews the lock and asks for the next batch (unless the
\* status update or the EXPIRE raises on its own account).
C14_TimeoutIsFailure ==
    [][\A u \in Uploaders :
        /\ (upc[u] = "wait_upload" /\ TimedOut(u)')
                => upc'[u] = "mark_error"
        /\ (TimedOut(u) /\ upc[u] = "mark_error" /\ upc'[u] \notin {"mark_error", "except"})
                => /\ upc'[u] = "expire"
                   /\ \A id \in product_ids[u] : status'[id] = "error"
        /\ (TimedOut(u) /\ upc[u] = "expire" /\ upc'[u] \notin {"expire", "except"})
                => upc'[u] = "next_exists"
      ]_vars

\* after a timeout the batch is error and the loop is at the next fetch
C14_Witness ==
    \E u \in Uploaders :
        /\ upc[u] = "next_exists"
        /\ TimedOut(u)
        /\ product_ids[u] # {}
        /\ \A id \in product_ids[u] : status[id] = "error"

SendSteps == {"uploads_in_progress", "wait_prior", "submit", "wait_upload", "send_except"}

\* the encodings of the batch of `u`, one for each order of its rows
EncodedBatch(u) ==
    {convert_to_csv([n \in 1..Len(order) |-> data[order[n]]], TRUE) :
        order \in Orderings(product_ids[u])}

\* C15: on every path on which send_to_meta returns False (no upload id, timeout of
\* the completion poll, exception of the provider client) it has written a failure
\* log that carries the encoded batch and the catalog, the app, the feed id, the
\* file name and the upload id (None when no upload was started).
C15_FailureIsLogged ==
    [][\A u \in Uploaders :
        (upc[u] \in SendSteps /\ upc'[u] = "mark_error") =>
            /\ Len(audit'[u]) >= 1
            /\ LET entry == audit'[u][Len(audit'[u])]
               IN /\ entry.attachment \in EncodedBatch(u)
                  /\ entry.catalog = ucatalog[u]
                  /\ entry.vtex_app = vtex_app(ucatalog[u])
                  /\ entry.feed_id = feed_id(ucatalog[u])
                  /\ entry.file_name = file_name'[u]
                  /\ entry.upload_id = upload_id'[u]
      ]_vars

\* send_to_meta has returned False after the provider client raised while an
\* accepted upload was being polled: the log names the upload
C15_Witness ==
    \E u \in Uploaders :
        /\ upc[u] = "mark_error"
        /\ Len(audit[u]) = 1
        /\ audit[u][1].exception = "Exception"
        /\ audit[u][1].upload_id # Nil
        /\ audit[u][1].attachment \in EncodedBatch(u)

(***************************************************************************)
(* sync_facebook_catalogs: the reconciliation of one app                   *)
(***************************************************************************)
\* the pass has gone through the current app without a failed call so far
AppReconciled(t) == spc[t] = "app" /\ spc'[t] = "body" /\ ~sfault'[t]

\* C16: in a pass in which no provider or store call fails, for every app with both
\* identities the catalogs created are exactly the listed ids that were not local,
\* the catalogs deleted are exactly the local ids that are not listed, and
\* afterwards the local ids are the listed ids, whatever the listing, the empty one
\* included.
C16_LocalEqualsRemote ==
    [][\A t \in SyncTasks :
        /\ AppReconciled(t) =>
            LET app == current_app(t)
            IN /\ {c \in CatalogIds : local_catalogs'[app][c] > local_catalogs[app][c]}
                        = slisting[t] \ slocal[t]
               /\ {c \in CatalogIds : local_catalogs'[app][c] < local_catalogs[app][c]}
                        = slocal[t] \ slisting[t]
               /\ {c \in CatalogIds : local_catalogs'[app][c] > 0} = slisting[t]
        /\ (spc[t] = "body" /\ spc'[t] = "done" /\ sfresh[t] /\ ~sfault[t]) =>
            \A app \in ConfiguredApps : local_catalog_ids(app) = remote[app]
      ]_vars

\* C17: once a pass has been completed without a failure, and as long as no listing
\* changes, a further run of sync_facebook_catalogs creates no catalog and deletes
\* none.
C17_Idempotent == [][settled => local_catalogs' = local_catalogs]_vars

\* a second run is going through an app whose catalogs the first run has made equal
\* to a listing that is not empty
C17_Witness ==
    \E t \in SyncTasks :
        /\ settled
        /\ spc[t] = "app"
        /\ slisting[t] # {}
        /\ slisting[t] = remote[current_app(t)]
        /\ slocal[t] = slisting[t]

\* C18: in every pass, for every app with both identities, the listing is pushed to
\* flows under the app's flow_object_uuid, whether or not a catalog had to be
\* created or deleted.
C18_ListingPushed ==
    [][\A t \in SyncTasks :
        AppReconciled(t) =>
            /\ current_app(t) \in snotified'[t]
            /\ flows'[flow_object_uuid(current_app(t))] = <<slisting[t]>>
      ]_vars

\* C19: a failure while one app is processed does not end the pass: the task leaves
\* the with block only after it has gone through every app.
C19_FailureDoesNotAbort ==
    [][\A t \in SyncTasks :
        (InBody(t) /\ ~InBody(t)') => scursor[t] = Len(apps_of(t))
      ]_vars

LinkedCatalogFound(sellers, vtex_catalog) ==
    /\ sellers # <<>>
    /\ config.wpp_cloud_uuid \in {"w1", "w2", "w3"}
    /\ CredentialKeys \subseteq config.api_credentials
    /\ vtex_catalog # Nil
    /\ config.wpp_cloud_uuid \in ConfiguredApps
    /\ local_catalogs[config.wpp_cloud_uuid][vtex_catalog[2]] > 0

\* C21: a start_insertion_by_seller call made while initial_sync_completed is false
\* ends in an exception and sends no task, and the exception is the ValueError of
\* _validate_sync_status when the checks before it pass. A call made while the flag
\* is true, the other checks passing, sends task_insert_vtex_products_by_sellers
\* when use_sync_v2 is true, whether or not the catalog has a feed, and when
\* use_sync_v2 is false and the catalog has a feed.
C21_BySellerGatedByInitialSync ==
    [][\A b \in SellerRequests, sellers \in SellerLists \cup {<<>>}, row \in LinkedRows :
          start_insertion_by_seller(b, sellers, row) =>
            /\ ~config.initial_sync_completed =>
                  /\ ended'[b].kind \in {"ValueError", "AttributeError"}
                  /\ jobs' = jobs
                  /\ LinkedCatalogFound(sellers, row) =>
                        ended'[b] = Raised("ValueError", "Initial synchronization not completed.")
            /\ ( /\ config.initial_sync_completed
                 /\ LinkedCatalogFound(sellers, row)
                 /\ config.connected_catalog
                 /\ config.use_sync_v2 \/ catalog_feeds[config.wpp_cloud_uuid][row[2]] > 0 ) =>
                  /\ ended'[b].kind = "dispatched"
                  /\ jobs'["task_insert_vtex_products_by_sellers"] =
                        jobs["task_insert_vtex_products_by_sellers"] + 1
      ]_vars

\* a by-seller request of an app in legacy mode, whose catalog has a feed, was
\* accepted
C21_Witness ==
    \E b \in SellerRequests :
        /\ ended[b].kind = "dispatched"
        /\ config.initial_sync_completed
        /\ ~config.use_sync_v2
        /\ catalog_feeds[ended[b].catalog[1]][ended[b].catalog[2]] > 0
        /\ jobs["task_insert_vtex_products_by_sellers"] = 1

(***************************************************************************)
(* The preconditions of the two admissions                                 *)
(***************************************************************************)
\* a call of one of the two admissions ends at this step without sending a task:
\* one of its preconditions did not hold
Rejects(r) ==
    /\ ended'[r] # ended[r] \/ r \in SellerRequests
    /\ ended'[r].kind # "dispatched"
    /\ \/ r \in Admissions /\ (FirstInsertReject(r) \/ AdmissionReturn(r))
       \/ r \in SellerRequests /\
            \E sellers \in SellerLists \cup {<<>>}, row \in LinkedRows :
                start_insertion_by_seller(r, sellers, row)

\* C22: in both admissions, a call whose preconditions do not all hold ends in a
\* ValueError and sends no task.
C22_FailedPreconditionIsValidationError ==
    [][\A r \in Requests :
          Rejects(r) => ended'[r].kind = "ValueError" /\ jobs' = jobs]_vars

(***************************************************************************)
(* CatalogProductInsertion._get_or_sync_catalog                            *)
(***************************************************************************)
\* the wpp-cloud app of the request has a Catalog row with the remote id
HasCatalog(catalog_id) ==
    /\ config.wpp_cloud_uuid \in ConfiguredApps
    /\ local_catalogs[config.wpp_cloud_uuid][catalog_id] > 0

LookupNotFound == Raised("ValueError", "not found for cloud app after synchronization.")

\* C23: the first lookup of first-insertion admission starts a reconciliation pass
\* exactly when it finds no Catalog row, and no pass when it finds one; a pass is
\* started by the first lookup only, so there is one per call; when the pass is over
\* the lookup is made once more and the call goes on with the catalog or raises the
\* ValueError; that ValueError is raised only after a second lookup that found
\* nothing.
C23_OnePassThenOneRetry ==
    [][\A i \in Admissions :
          /\ (spc[i] = "idle" /\ spc'[i] # "idle") =>
                /\ HasCatalog(wanted'[i]) => spc'[i] = "found"
                /\ ~HasCatalog(wanted'[i]) => spc'[i] = "get"
          /\ (spc'[i] = "get" /\ spc[i] # "get") => spc[i] = "idle"
          /\ (spc[i] = "done" /\ spc'[i] # "done") =>
                /\ HasCatalog(wanted[i]) => spc'[i] = "found"
                /\ ~HasCatalog(wanted[i]) => spc'[i] = "not_found"
          /\ (spc'[i] = "not_found" /\ spc[i] # "not_found") => spc[i] = "done"
          /\ (ended'[i] # ended[i] /\ ended'[i] = LookupNotFound) => spc[i] = "not_found"
      ]_vars

\* the pass that the first lookup started has listed the provider's catalogs, and
\* the second lookup found nothing
C23_Witness ==
    \E i \in Admissions : spc[i] = "not_found" /\ seffects[i] /\ ~HasCatalog(wanted[i])

(***************************************************************************)
(* CatalogProductInsertion.first_product_insert_with_catalog               *)
(***************************************************************************)
\* an earlier first_product_insert_with_catalog for the catalog has left its mark:
\* the checks pass, the catalog exists with no feeds and is linked to the app of the
\* request, and connected_catalog is true
TargetStateHolds(i, catalog_id) ==
    /\ config.wpp_cloud_uuid \in ConfiguredApps
    /\ CredentialKeys \subseteq config.api_credentials
    /\ local_catalogs[config.wpp_cloud_uuid][catalog_id] > 0
    /\ catalog_feeds[config.wpp_cloud_uuid][catalog_id] = 0
    /\ config.connected_catalog
    /\ catalog_vtex_app[config.wpp_cloud_uuid][catalog_id] = request_app(i)

\* C24: when the target state holds, first_product_insert_with_catalog finds the
\* catalog at its first lookup, starts no pass, raises nothing, writes neither the
\* app configuration nor a Catalog nor a feed, and sends the task: the
\* configuration, the catalogs, their links and their feeds are after the call what
\* they were before it.
C24_FirstInsertIdempotent ==
    [][\A i \in Admissions, c \in CatalogIds :
          TargetStateHolds(i, c) =>
            /\ ~FirstInsertReject(i)
            /\ GetCatalog(i, c) => spc'[i] = "found"
            /\ (wanted[i] = c /\ FirstInsertAdmit(i)) =>
                  /\ ended'[i] = Dispatched(<<config.wpp_cloud_uuid, c>>, {})
                  /\ config' = config
                  /\ local_catalogs' = local_catalogs
                  /\ catalog_vtex_app' = catalog_vtex_app
                  /\ catalog_feeds' = catalog_feeds
      ]_vars

\* the call was made in the target state and has sent its task without a write
C24_Witness ==
    \E i \in Admissions, c \in CatalogIds :
        /\ TargetStateHolds(i, c)
        /\ ended[i] = Dispatched(<<config.wpp_cloud_uuid, c>>, {})
        /\ jobs["task_insert_vtex_products"] = 1
        /\ spc[i] = "idle"

(***************************************************************************)
(* ProductUploadManager.convert_to_csv                                     *)
(***************************************************************************)
\* the lines of an encoded buffer: the byte sequences between line feeds
RECURSIVE Lines(_)
Lines(bytes) ==
    LET feeds == {n \in 1..Len(bytes) : bytes[n] = 10}
    IN IF feeds = {} THEN <<bytes>>
       ELSE LET first == CHOOSE n \in feeds : \A m \in feeds : n <= m
            IN <<SubSeq(bytes, 1, first - 1)>> \o Lines(SubSeq(bytes, first + 1, Len(bytes)))

\* C25: the buffer convert_to_csv returns for a batch holds neither the byte of the
\* double quote (34) nor that of the single quote (39); its first line is the
\* header, no other line is, and after the header there is one line for each record
\* of the batch.
C25_NoQuotesOneLinePerRecord ==
    \A u \in Uploaders :
        csv_content[u] # Nil =>
            LET bytes == csv_content[u]
                lines == Lines(bytes)
            IN /\ \A n \in 1..Len(bytes) : bytes[n] \notin {34, 39}
               /\ lines[1] = encode(header)
               /\ \A n \in 2..Len(lines) : lines[n] # encode(header)
               /\ Len(lines) = 1 + Cardinality(product_ids[u])

(***************************************************************************)
(* ProductBatchFetcher after StopIteration                                 *)
(***************************************************************************)
\* C26: once a next() of a fetcher has raised StopIteration, no later next() of
\* that fetcher selects or returns a batch, not even when rows of its catalog are
\* pending again.
C26_ExhaustedForGood ==
    \A u \in Uploaders :
        exhausted[u] => upc[u] \notin {"next_ids", "next_update", "next_return", "send"}

(***************************************************************************)
(* extract_sku_id                                                          *)
(***************************************************************************)
\* the characters of a product id that precede its first "#"
BeforeFirstHash(product_id) ==
    LET hashes == {n \in 1..Len(product_id) : product_id[n] = "#"}
        cut == IF hashes = {} THEN Len(product_id) + 1
               ELSE CHOOSE n \in hashes : \A m \in hashes : n <= m
    IN  SubSeq(product_id, 1, cut - 1)

RECURSIVE DecimalValue(_, _)
DecimalValue(digits, n) ==
    IF n > Len(digits) THEN 0
    ELSE DigitValue[digits[n]] * (10 ^ (Len(digits) - n)) + DecimalValue(digits, n + 1)

\* C27: extract_sku_id returns the integer written before the first "#" when that
\* part is a non-empty run of decimal digits, and raises, returning no value, for
\* every other product id.
C27_SkuBeforeFirstHash ==
    sku_call # Nil =>
        LET part == BeforeFirstHash(sku_call[1])
            digits == part # <<>> /\ \A n \in 1..Len(part) : part[n] \in DOMAIN DigitValue
        IN  IF digits
            THEN ~sku_call[2].raises /\ sku_call[2].value = DecimalValue(part, 1)
            ELSE sku_call[2].raises

C27_Witness ==
    /\ sku_call # Nil
    /\ sku_call[1] = <<"5", "5", "#">>
    /\ sku_call[2] = [raises |-> FALSE, value |-> 55]

(***************************************************************************)
(* Status updates under two workers                                        *)
(***************************************************************************)
\* C28: a status update changes a row only from the expected prior status: to
\* processing from pending, to success or error from processing; so no update
\* overwrites the transition another worker performed on the row.
C28_UpdatesCheckPriorStatus ==
    [][\A id \in UploadProductIds :
            status'[id] # status[id] =>
                /\ status'[id] = "processing" => status[id] = "pending"
                /\ status'[id] \in {"success", "error"} => status[id] = "processing"]_vars

(***************************************************************************)
(* process_and_upload when the first fetch fails                           *)
(***************************************************************************)
\* C29: when the exception is raised by the first next() of the invocation, before
\* the for statement has bound a batch, the except clause ends with
\* process_and_upload returning normally and with every row of the catalog in the
\* status it had when the invocation began.
C29_FailedFirstFetchIsNoOp ==
    [][\A u \in Uploaders :
            (upc[u] = "except" /\ ~bound_ids[u] /\ upc'[u] # "except") =>
                /\ upc'[u] = "release"
                /\ pending_rows(status', ucatalog[u]) = pending_at_start[u]]_vars

(***************************************************************************)
(* Incident notification of a failed send_to_meta                          *)
(***************************************************************************)
\* C30: whenever send_to_meta has returned False (no upload id, completion timeout
\* or an exception of the provider client), create_notification was called during
\* that send_to_meta call.
C30_EveryFailureNotifies ==
    \A u \in Uploaders : upc[u] = "mark_error" => incidents[u] >= 1

(***************************************************************************)
(* The order of the admission preconditions                                *)
(***************************************************************************)
\* the precondition an outcome is the error of
Stage(outcome) ==
    CASE outcome.kind = "dispatched" -> "none"
      [] outcome.message = "'sellers' is required." -> "sellers"
      [] outcome.message = "does not have the WPP Cloud UUID" -> "identity"
      [] outcome.message = "Missing one or more API credentials." -> "credentials"
      [] outcome.message = "linked to the VTEX app does not exist." -> "app"
      [] outcome.message \in {"There must be a catalog linked to the vtex app", "catalog_id",
                              "not found for cloud app after synchronization."} -> "catalog"
      [] outcome.message = "Initial synchronization not completed." -> "initial_sync"
      [] outcome.message = "Change connected_catalog to True." -> "connected_catalog"
      [] outcome.message = "At least 1 feed created is required" -> "feed"
      [] OTHER -> "other"

\* the preconditions of a by-seller request that do not hold, read off the
\* configuration and the store
FailingPreconditions(vtex_catalog) ==
    LET wpp == config.wpp_cloud_uuid
        found == /\ vtex_catalog # Nil
                 /\ wpp \in ConfiguredApps
                 /\ local_catalogs[wpp][vtex_catalog[2]] > 0
    IN  {p \in {"identity", "credentials", "app", "catalog", "initial_sync",
                "connected_catalog", "feed"} :
            CASE p = "identity" -> wpp = ""
              [] p = "credentials" -> ~({"app_key", "app_token", "domain"} \subseteq config.api_credentials)
              [] p = "app" -> wpp \notin {"w1", "w2", "w3"}
              [] p = "catalog" -> ~found
              [] p = "initial_sync" -> ~config.initial_sync_completed
              [] p = "connected_catalog" -> ~config.connected_catalog
              [] OTHER -> /\ ~config.use_sync_v2
                          /\ found
                          /\ catalog_feeds[wpp][vtex_catalog[2]] = 0}

\* the first precondition of `order` that fails, "none" when all hold
FirstFailing(order, failing) ==
    LET at == {n \in 1..Len(order) : order[n] \in failing}
    IN IF at = {} THEN "none" ELSE order[CHOOSE n \in at : \A m \in at : n <= m]

\* every by-seller request with sellers ends in the error of the first precondition
\* of `order` that fails, and every first insertion that ends before the catalog
\* lookup in the error of the first of identity, credentials, app that fails
FailsFastIn(order) ==
    /\ \A b \in SellerRequests, sellers \in SellerLists, row \in LinkedRows :
            start_insertion_by_seller(b, sellers, row) =>
                Stage(ended'[b]) = FirstFailing(order, FailingPreconditions(row))
    /\ \A i \in Admissions :
            FirstInsertReject(i) =>
                Stage(ended'[i]) = FirstFailing(<<"identity", "credentials", "app">>,
                                                FailingPreconditions(Nil))

\* C31 as stated: the preconditions are checked in the order identity, credentials,
\* app, catalog, initial-sync flag, connected-catalog flag, feed (legacy mode), and
\* the error of a call is that of the first one that fails.
C31_FailFastInStatedOrder ==
    [][FailsFastIn(<<"identity", "credentials", "app", "catalog", "initial_sync",
                     "connected_catalog", "feed">>)]_vars

\* C31, amended: the order is identity, credentials, app, catalog, initial-sync flag,
\* feed (legacy mode), connected-catalog flag; the error of a call is that of the
\* first one that fails, and no two preconditions share an error.
C31_FailFastInCodeOrder ==
    [][FailsFastIn(<<"identity", "credentials", "app", "catalog", "initial_sync",
                     "feed", "connected_catalog">>)]_vars

\* a by-seller request of a legacy-mode app whose catalog has no feed and whose
\* connected_catalog flag is false was rejected for the missing feed
C31_Witness ==
    \E b \in SellerRequests :
        /\ Stage(ended[b]) = "feed"
        /\ ~config.connected_catalog
        /\ ~config.use_sync_v2
        /\ config.initial_sync_completed

(***************************************************************************)
(* Rows left in processing by process_and_upload                           *)
(***************************************************************************)
\* C32: once process_and_upload has returned or has raised, none of the rows that
\* were pending when it began, and that it therefore moved itself, is in status
\* processing.
C32_NoRowLeftProcessing ==
    \A u \in Uploaders :
        upc[u] \in {"release", "raised"} =>
            \A id \in pending_at_start[u] : status[id] # "processing"

(***************************************************************************)
(* mark_products_as_sent and mark_products_as_error across catalogs        *)
(***************************************************************************)
\* C33: a mark_products_as_sent or mark_products_as_error call of the batch loop of
\* one catalog changes the status of no row of another catalog.
C33_MarksStayInCatalog ==
    [][\A u \in Uploaders :
          (MarkSent(u) \/ MarkError(u)) =>
              \A id \in UploadProductIds :
                  row_catalog(id) # ucatalog[u] => status'[id] = status[id]]_vars

(***************************************************************************)
(* A stale holder of a sync-sellers key                                    *)
(***************************************************************************)
\* C34: a release_lock call of a caller whose key has expired does not remove the
\* key while another caller, granted the key by a later create_lock, holds it.
C34_StaleReleaseKeepsLaterLock ==
    [][\A s \in LockCallers :
          release_lock(s) =>
              \A later \in LockCallers \ {s} :
                  ~(/\ lpc[later] = "got"
                    /\ lresult[later] = lresult[s]
                    /\ later \in granted[lresult[s]]
                    /\ redis'[lresult[s]] = Nil)]_vars

(***************************************************************************)
(* Rows in success and their ProductUploadLog rows                         *)
(***************************************************************************)
\* C35: once process_and_upload has ended, every row it set to success has a
\* ProductUploadLog row of its SKU and of the catalog's vtex app.
C35_SuccessHasItsLog ==
    \A u \in Uploaders :
        upc[u] \in {"release", "raised"} =>
            \A id \in pending_at_start[u] :
                status[id] = "success" =>
                    \E k \in DOMAIN logs :
                        /\ logs[k] >= 1
                        /\ k[2] = vtex_app(ucatalog[u])
                        /\ ~extract_sku_id(facebook_product_id(id)).raises
                        /\ k[1] = extract_sku_id(facebook_product_id(id)).value

(***************************************************************************)
(* The catalog a first insertion is dispatched for                         *)
(***************************************************************************)
\* C36: when first_product_insert_with_catalog sends task_insert_vtex_products for a
\* catalog, the catalog's vtex_app is the vtex app of the request, whatever the
\* catalog was linked to before the call.
C36_DispatchedCatalogIsLinkedToRequester ==
    [][\A i \in Admissions :
          (FirstInsertAdmit(i) /\ ended'[i].kind = "dispatched") =>
              catalog_vtex_app'[ended'[i].catalog[1]][ended'[i].catalog[2]] = request_app(i)
      ]_vars

(***************************************************************************)
(* What start_insertion_by_seller changes                                  *)
(***************************************************************************)
\* C37: a start_insertion_by_seller call, accepted or rejected, leaves the app
\* configuration, the catalogs, their links and feeds and the UploadProduct rows as
\* they were; it sends task_insert_vtex_products_by_sellers once when sellers are
\* given and every precondition holds, and sends no task otherwise.
C37_BySellerOnlyDispatches ==
    [][\A b \in SellerRequests, sellers \in SellerLists \cup {<<>>}, row \in LinkedRows :
          start_insertion_by_seller(b, sellers, row) =>
            /\ config' = config
            /\ local_catalogs' = local_catalogs
            /\ catalog_vtex_app' = catalog_vtex_app
            /\ catalog_feeds' = catalog_feeds
            /\ status' = status /\ modified_on' = modified_on /\ logs' = logs
            /\ jobs'["task_insert_vtex_products"] = jobs["task_insert_vtex_products"]
            /\ jobs'["task_insert_vtex_products_by_sellers"] =
                    jobs["task_insert_vtex_products_by_sellers"] +
                        (IF sellers # <<>> /\ FailingPreconditions(row) = {} THEN 1 ELSE 0)
            /\ ended'[b].kind = "dispatched" <=>
                    (sellers # <<>> /\ FailingPreconditions(row) = {})
      ]_vars

\* a by-seller request of an app in the newer sync mode, whose catalog has no feed,
\* was accepted and its task sent
C37_Witness ==
    \E b \in SellerRequests :
        /\ ended[b].kind = "dispatched"
        /\ config.use_sync_v2
        /\ catalog_feeds[ended[b].catalog[1]][ended[b].catalog[2]] = 0
        /\ jobs["task_insert_vtex_products_by_sellers"] = 1

(***************************************************************************)
(* The reconciliation lock at the end of a pass                            *)
(***************************************************************************)
\* C38: a task that is not inside the with block of sync_facebook_catalogs, having
\* left it normally or by an exception of get_catalog_details_task, does not hold
\* the reconciliation lock; and a lock that a task holds is released in the end.
C38_LockReleasedAtEndOfPass ==
    /\ [](\A t \in SyncTasks :
            spc[t] \in {"idle", "get", "acquire", "done", "failed"} =>
                redis[SYNC_WHATSAPP_CATALOGS_LOCK_KEY] # <<t>>)
    /\ \A t \in SyncTasks :
            (redis[SYNC_WHATSAPP_CATALOGS_LOCK_KEY] = <<t>>) ~>
                (redis[SYNC_WHATSAPP_CATALOGS_LOCK_KEY] = Nil)

\* a pass has ended by the exception of get_catalog_details_task and the lock is free
C38_Witness ==
    /\ spc["t1"] = "failed"
    /\ redis[SYNC_WHATSAPP_CATALOGS_LOCK_KEY] = Nil

(***************************************************************************)
(* By-seller insertion after configure                                     *)
(***************************************************************************)
\* C39: from a configure of the app until a first_product_insert of one of its
\* catalogs has completed, every start_insertion_by_seller of the app is rejected
\* and sends no task; a first_product_insert whose product listing raises leaves
\* initial_sync_completed as it was.
C39_NoBySellerBeforeFirstInsert ==
    [][/\ \A b \in SellerRequests, sellers \in SellerLists \cup {<<>>}, row \in LinkedRows :
            (onboard = "configured" /\ start_insertion_by_seller(b, sellers, row)) =>
                ended'[b].kind # "dispatched" /\ jobs' = jobs
       /\ \A i \in Admissions :
            first_product_insert(i, FALSE) =>
                config'.initial_sync_completed = config.initial_sync_completed
       /\ onboard' = "configured" => ~config'.initial_sync_completed
      ]_vars

\* after a configure and a completed first insertion a by-seller request of the
\* app was accepted
C39_Witness ==
    \E b \in SellerRequests :
        /\ onboard = "inserted"
        /\ ended[b].kind = "dispatched"
        /\ \E i \in Admissions : ended[i].kind = "inserted"

(***************************************************************************)
(* synchronized_sellers and the sync-vtex-sellers endpoint                 *)
(***************************************************************************)
\* C40: synchronized_sellers does not raise; it returns True, with the by-seller task
\* sent once, exactly when sellers are given and every precondition of the
\* admission holds, and False, with no task sent, otherwise; the endpoint answers
\* 400 exactly when it returned False.
C40_SynchronizedSellersNeverRaises ==
    [][\A b \in SellerRequests, sellers \in SellerLists \cup {<<>>}, row \in LinkedRows :
          sync_sellers(b, sellers, row) =>
            LET admitted == sellers # <<>> /\ FailingPreconditions(row) = {}
            IN /\ ended'[b].returned \in {"True", "False"}
               /\ ended'[b].returned = "True" <=> admitted
               /\ jobs'["task_insert_vtex_products_by_sellers"] =
                    jobs["task_insert_vtex_products_by_sellers"] + (IF admitted THEN 1 ELSE 0)
               /\ ended'[b].response = HTTP_400_BAD_REQUEST <=> ended'[b].returned = "False"
               /\ ended'[b].response = HTTP_200_OK <=> ended'[b].returned = "True"
      ]_vars

\* a request whose linked catalog is not one of the configured wpp-cloud app was
\* answered with 400: the exception of the admission was not a ValueError
C40_Witness ==
    \E b \in SellerRequests :
        /\ ended[b].kind = "AttributeError"
        /\ ended[b].returned = "False"
        /\ ended[b].response = HTTP_400_BAD_REQUEST
        /\ jobs["task_insert_vtex_products_by_sellers"] = 0

====
